---- MODULE Spec2Model ----
(***************************************************************************)
(* Wingbeat: the tornado swarm (src/src/swarm/tornado.rs), the subgraph    *)
(* (src/src/core/subgraph.rs) and the prompt processor                     *)
(* (src/src/computation/prompt_processor.rs), as a state machine.          *)
(*                                                                         *)
(* Callers are asynchronous tasks.  A task is suspended only at an .await; *)
(* every .await of the modelled code is a lock acquisition on a            *)
(* tokio::sync::RwLock, so one action is one lock acquisition together     *)
(* with the code that runs up to the next acquisition that can suspend.    *)
(* Strings are sequences of one-character strings.  f32 strengths are      *)
(* tenths (3 stands for 0.3).  Uuid::new_v4() values are fresh triples.    *)
(***************************************************************************)
EXTENDS Integers, Sequences, FiniteSets, TLC

----------------------------------------------------------------------------
(* Bounds of the model *)

\* number of concurrent callers
NumProcs == 2
\* total number of send_prompt calls
MaxPrompts == 2
\* total number of calls of any operation
MaxCalls == 3
\* largest count handed to release
MaxCount == 1

Procs == 1 .. NumProcs

----------------------------------------------------------------------------
(* Strings *)

Str_Test_prompt == <<"T", "e", "s", "t", " ", "p", "r", "o", "m", "p", "t">>
Str_hi_ == <<"h", "i", " ">>

\* the prompts callers submit
Prompts == {Str_Test_prompt, Str_hi_}

LowerCase ==
  <<"a", "b", "c", "d", "e", "f", "g", "h", "i", "j", "k", "l", "m",
    "n", "o", "p", "q", "r", "s", "t", "u", "v", "w", "x", "y", "z">>
UpperCase ==
  <<"A", "B", "C", "D", "E", "F", "G", "H", "I", "J", "K", "L", "M",
    "N", "O", "P", "Q", "R", "S", "T", "U", "V", "W", "X", "Y", "Z">>

\* char::to_uppercase on the characters in use
UpperChar(c) ==
  IF \E n \in DOMAIN LowerCase : LowerCase[n] = c
    THEN UpperCase[CHOOSE n \in DOMAIN LowerCase : LowerCase[n] = c]
    ELSE c

\* str::to_uppercase
ToUppercase(s) == [n \in DOMAIN s |-> UpperChar(s[n])]

IsWhitespace(c) == c \in {" ", "\t", "\n"}

RECURSIVE SplitFrom(_, _, _)
\* the words of s from position n on; cur is the word being read
SplitFrom(s, n, cur) ==
  IF n > Len(s)
    THEN IF cur = <<>> THEN <<>> ELSE <<cur>>
    ELSE IF IsWhitespace(s[n])
           THEN IF cur = <<>>
                  THEN SplitFrom(s, n + 1, <<>>)
                  ELSE <<cur>> \o SplitFrom(s, n + 1, <<>>)
           ELSE SplitFrom(s, n + 1, Append(cur, s[n]))

\* str::split_whitespace().collect()
SplitWhitespace(s) == SplitFrom(s, 1, <<>>)

RECURSIVE JoinWords(_)
\* [&str]::join(" ")
JoinWords(ws) ==
  IF ws = <<>> THEN <<>>
  ELSE IF Len(ws) = 1 THEN ws[1]
  ELSE ws[1] \o <<" ">> \o JoinWords(Tail(ws))

Min(a, b) == IF a < b THEN a ELSE b

----------------------------------------------------------------------------
(* Identifiers: Uuid::new_v4() *)

NoId == <<"none", 0, 0>>
PromptId(n) == <<"prompt", n, 0>>
FragmentId(n, k) == <<"fragment", n, k>>
FragmentSubgraphId(n, k) == <<"fragment.subgraph_id", n, k>>
SubgraphId(n, k) == <<"subgraph", n, k>>
NodeId(n, k) == <<"node", n, k>>
TornadoId(n) == <<"tornado", n, 0>>

----------------------------------------------------------------------------
(* fragment_prompt *)

\* rand::random::<usize>() % 4
FragmentSizesFromZero == 0 .. 3

\* rand::random::<usize>() % 3 + 1
FragmentSizes == 1 .. 3

PromptFragment(n, k, content) ==
  [id |-> FragmentId(n, k), content |-> content,
   subgraph_id |-> FragmentSubgraphId(n, k), processed |-> FALSE]

RECURSIVE FragmentsFrom(_, _, _, _)
\* the while loop of fragment_prompt from word index i (0-based), with k
\* fragments already pushed: the set of fragment lists it can produce
FragmentsFrom(words, i, n, k) ==
  IF ~(i < Len(words))
    THEN {<<>>}
    ELSE UNION {
      LET end == Min(i + fragment_size, Len(words))
          fragment_content == JoinWords(SubSeq(words, i + 1, end))
      IN  {<<PromptFragment(n, k + 1, fragment_content)>> \o rest :
             rest \in FragmentsFrom(words, end, n, k + 1)}
      : fragment_size \in FragmentSizes }

FragmentPrompt(prompt, n) == FragmentsFrom(SplitWhitespace(prompt), 0, n, 0)

----------------------------------------------------------------------------
(* Subgraph *)

\* rand::random::<f32>() is in [0, 1): in tenths
Strengths == 0 .. 9

\* the strengths drawn for the subgraphs of prompts; callers of the prompt
\* processor never read a strength (spin only prints on it), so one value
PromptStrengths == {2}

\* the strengths of the subgraphs handed to a single tornado: two that
\* connect (0, 2), two that differ by the threshold (0, 3), one far off
TornadoStrengths == {0, 2, 3, 9}

\* the 0.3 of can_connect_with, in tenths
ConnectThreshold == 3

ComputeNode(id, content) ==
  [id |-> id, operation |-> <<"Process", content>>, state |-> "Idle"]

\* Subgraph::new()
NewSubgraph(id, strength) ==
  [id |-> id, nodes |-> <<>>, parent |-> NoId, children |-> <<>>,
   tornado_strength |-> strength]

\* graph.add_node(node)
AddNode(sg, node) == [sg EXCEPT !.nodes = Append(@, node)]

Abs(x) == IF x < 0 THEN -x ELSE x

\* a can_connect_with whose comparison is <=
CanConnectWithInclusive(a, b) ==
  Abs(a.tornado_strength - b.tornado_strength) <= ConnectThreshold

\* Subgraph::can_connect_with
CanConnectWith(a, b) ==
  Abs(a.tornado_strength - b.tornado_strength) < ConnectThreshold

\* a merge that adds the strengths up
MergeSum(self, other) ==
  [self EXCEPT !.nodes = @ \o other.nodes,
               !.tornado_strength = @ + other.tornado_strength]

\* Subgraph::merge: other's nodes are added, the strength becomes the mean
Merge(self, other) ==
  [self EXCEPT !.nodes = @ \o other.nodes,
               !.tornado_strength = (@ + other.tornado_strength) \div 2]

----------------------------------------------------------------------------
(* tokio::sync::RwLock: fair, with a FIFO queue of waiters.  w is the       *)
(* caller that holds the write guard (0: nobody), r[p] the number of read   *)
(* guards p holds, q the queue of waiting requests                          *)

FreeLock == [w |-> 0, r |-> [p \in Procs |-> 0], q |-> <<>>]

\* a lock whose write guard does not wait for the read guards
FreeWritePreempts(l, m) == l.w = 0

\* no guard on l excludes a guard of mode m
Free(l, m) ==
  IF m = "r" THEN l.w = 0
  ELSE l.w = 0 /\ \A p \in Procs : l.r[p] = 0

Enqueued(l, p, m) == [l EXCEPT !.q = Append(@, <<p, m>>)]

Locked(l, p, m) ==
  IF m = "r" THEN [l EXCEPT !.r[p] = @ + 1] ELSE [l EXCEPT !.w = p]

Unlocked(l, p, m) ==
  IF m = "r" THEN [l EXCEPT !.r[p] = @ - 1] ELSE [l EXCEPT !.w = 0]

----------------------------------------------------------------------------
(* State *)

VARIABLES
  tornadoes,       \* TornadoSwarm.tornadoes: the Vec<Tornado> (id, eye, subgraphs map)
  poolLock,        \* the RwLock around TornadoSwarm.tornadoes
  sgLock,          \* sgLock[t]: the RwLock around tornadoes[t].subgraphs
  active_prompts,  \* PromptProcessor.active_prompts: the HashMap<Uuid, SwarmPrompt>
  promptsLock,     \* the RwLock around active_prompts
  pc,              \* pc[p]: where caller p stands
  waiting,         \* waiting[p]: p is queued on the lock its pc asks for
  local,           \* local[p]: the local variables of p's call
  ret,             \* ret[p]: what p's call returned in the step just taken
  nextPrompt,      \* number of the next prompt Uuid
  nextTornado,     \* number of the next tornado Uuid
  calls,           \* calls made so far
  submitted,       \* submitted[n]: the argument of the n-th send_prompt call
  collected,       \* collected[id]: what the collect_results calls of id returned
  evicted,         \* the ids of the subgraphs a release has taken out of a tornado
  units,           \* the Subgraph values a caller owns outside any tornado
  nextUnit,        \* number of the next Uuid drawn outside the processor
  result,          \* the last call on a unit or a decomposer, and its result
  model_layers,    \* ModelDecomposer.model_layers
  subgraph_mapping,\* ModelDecomposer.subgraph_mapping: layer id -> subgraph id
  frag             \* a run of fragment_prompt: its locals

vars ==
  <<tornadoes, poolLock, sgLock, active_prompts, promptsLock, pc, waiting,
    local, ret, nextPrompt, nextTornado, calls, submitted, collected, evicted,
    units,
    nextUnit, result, model_layers, subgraph_mapping, frag>>

\* the objects a caller holds beside the processor
objects == <<units, nextUnit, result, model_layers, subgraph_mapping, frag>>

NoPrompt ==
  [id |-> NoId, content |-> <<>>, origin |-> <<0, 0, 0>>, status |-> "Sent",
   fragments |-> <<>>]

\* the locals of a caller that is in no call
NoLocals ==
  [prompt |-> NoPrompt, arg |-> NoId, i |-> 0, k |-> 0, phase |-> 0,
   ids |-> {}, evals |-> 0, released |-> <<>>, count |-> 0, src |-> 0,
   dst |-> 0, spawned |-> 0, swept |-> <<>>, held |-> 0, spun |-> <<>>]

\* a returned value: the call, its id (argument or result), Some/None with
\* the content
NoRet == [op |-> "none", arg |-> NoId, some |-> FALSE, val |-> <<>>]

Returned(op, arg, some, val) == [op |-> op, arg |-> arg, some |-> some, val |-> val]

EmptyMap == [x \in {} |-> NoId]

\* Tornado::new(position); radius, angular_velocity and height are cosmetic
Tornado(id, position) == [id |-> id, eye |-> position, subgraphs |-> EmptyMap]

\* the positions callers spawn at
Positions == {<<0, 0, 0>>}

\* the position of the i-th auto-spawned tornado (i as f32 * 10.0, i as f32 * 5.0, 0.0)
DefaultPosition(i) == <<i * 10, i * 5, 0>>

\* the number of tornadoes distribute_fragments spawns into an empty swarm
DefaultTornadoes == 3

\* the last call: none yet
NoResult == [op |-> "none"]

\* no run of fragment_prompt
NoFrag == [pc |-> "none"]

\* a caller that holds no unit, an empty decomposer, no run of fragment_prompt
NoObjects ==
  /\ units = <<>>
  /\ nextUnit = 1
  /\ result = NoResult
  /\ model_layers = <<>>
  /\ subgraph_mapping = EmptyMap
  /\ frag = NoFrag

Init ==
  /\ NoObjects
  /\ collected = EmptyMap
  /\ evicted = {}
  /\ tornadoes = <<>>
  /\ poolLock = FreeLock
  /\ sgLock = <<>>
  /\ active_prompts = EmptyMap
  /\ promptsLock = FreeLock
  /\ pc = [p \in Procs |-> "idle"]
  /\ waiting = [p \in Procs |-> FALSE]
  /\ local = [p \in Procs |-> NoLocals]
  /\ ret = [p \in Procs |-> NoRet]
  /\ nextPrompt = 1
  /\ nextTornado = 1
  /\ calls = 0
  /\ submitted = <<>>

----------------------------------------------------------------------------
(* Lock acquisition by a caller *)

\* p's request of mode m on l is granted now: nothing excludes it, and p is
\* first in the queue (or the queue is empty and p was not waiting)
Granted(l, p, m) ==
  /\ Free(l, m)
  /\ IF waiting[p] THEN l.q # <<>> /\ Head(l.q) = <<p, m>> ELSE l.q = <<>>

\* l without p's queue entry
Taken(l, p) == IF waiting[p] THEN [l EXCEPT !.q = Tail(@)] ELSE l

\* the mode pc[p] asks of the pool lock, "-" when it asks none
PoolMode(p) ==
  CASE pc[p] \in {"df_read1", "df_read2", "tick_read", "tr_read"} -> "r"
    [] pc[p] \in {"df_spawn", "st_push"} -> "w"
    [] OTHER -> "-"

\* the mode pc[p] asks of the active_prompts lock
PromptsMode(p) ==
  IF pc[p] \in {"sp_insert", "df_status", "cr_lock"} THEN "w" ELSE "-"

\* a tornado_idx that starts one tornado further on
TornadoIdxShifted(i, len) == (i + 1) % len

\* tornado_idx = i % tornadoes.len()
TornadoIdx(i, len) == i % len

\* the tornado (1-based) whose subgraphs lock pc[p] asks for, 0 when none
SgTarget(p) ==
  CASE pc[p] = "df_sweep" ->
         IF Len(tornadoes) = 0 THEN 0
         ELSE TornadoIdx(local[p].i, Len(tornadoes)) + 1
    [] pc[p] = "spin_lock" -> local[p].k
    [] pc[p] = "tr_release" -> local[p].src
    [] pc[p] = "tr_sweep" -> local[p].dst
    [] OTHER -> 0

SgMode(p) == IF pc[p] = "spin_lock" THEN "r" ELSE "w"

\* no call returns in this step
NoReturn ==
  /\ ret' = [q \in Procs |-> NoRet]
  /\ UNCHANGED <<collected, evicted, objects>>

\* p's call returns value; every Some a collect_results returns for an id
\* is remembered, in the order of the returns
Return(p, value) ==
  /\ pc' = [pc EXCEPT ![p] = "idle"]
  /\ local' = [local EXCEPT ![p] = NoLocals]
  /\ ret' = [q \in Procs |-> IF q = p THEN value ELSE NoRet]
  /\ collected' =
       IF value.op = "collect_results" /\ value.some
         THEN IF value.arg \in DOMAIN collected
                THEN [collected EXCEPT ![value.arg] = Append(@, value.val)]
                ELSE (value.arg :> <<value.val>>) @@ collected
         ELSE collected
  /\ UNCHANGED <<evicted, objects>>

\* p's call panics: the task ends, its guards are dropped by unwinding
Panicked(p) ==
  /\ pc' = [pc EXCEPT ![p] = "panicked"]
  /\ local' = [local EXCEPT ![p] = NoLocals]
  /\ NoReturn

\* p makes a call: its locals are loc, its first step is at label
Call(p, label, loc) ==
  /\ pc[p] = "idle"
  /\ calls < MaxCalls
  /\ calls' = calls + 1
  /\ pc' = [pc EXCEPT ![p] = label]
  /\ local' = [local EXCEPT ![p] = loc]
  /\ NoReturn
  /\ UNCHANGED <<tornadoes, poolLock, sgLock, active_prompts, promptsLock,
                 waiting, nextTornado>>

\* the request cannot be granted at once: the caller joins the queue
BlockPool(p) ==
  /\ PoolMode(p) # "-"
  /\ ~waiting[p]
  /\ ~Granted(poolLock, p, PoolMode(p))
  /\ poolLock' = Enqueued(poolLock, p, PoolMode(p))
  /\ waiting' = [waiting EXCEPT ![p] = TRUE]
  /\ NoReturn
  /\ UNCHANGED <<tornadoes, sgLock, active_prompts, promptsLock, pc, local,
                 nextPrompt, nextTornado, calls, submitted>>

BlockPrompts(p) ==
  /\ PromptsMode(p) # "-"
  /\ ~waiting[p]
  /\ ~Granted(promptsLock, p, PromptsMode(p))
  /\ promptsLock' = Enqueued(promptsLock, p, PromptsMode(p))
  /\ waiting' = [waiting EXCEPT ![p] = TRUE]
  /\ NoReturn
  /\ UNCHANGED <<tornadoes, poolLock, sgLock, active_prompts, pc, local,
                 nextPrompt, nextTornado, calls, submitted>>

BlockSubgraphs(p) ==
  /\ SgTarget(p) # 0
  /\ ~waiting[p]
  /\ ~Granted(sgLock[SgTarget(p)], p, SgMode(p))
  /\ sgLock' = [sgLock EXCEPT ![SgTarget(p)] = Enqueued(@, p, SgMode(p))]
  /\ waiting' = [waiting EXCEPT ![p] = TRUE]
  /\ NoReturn
  /\ UNCHANGED <<tornadoes, poolLock, active_prompts, promptsLock, pc, local,
                 nextPrompt, nextTornado, calls, submitted>>

----------------------------------------------------------------------------
(* HashMap and Vec operations *)

\* an insert that keeps the entry already held under sg.id
SweepUpKeeps(subgraphs, sg) == subgraphs @@ (sg.id :> sg)

\* HashMap::insert(sg.id, sg)
SweepUp(subgraphs, sg) == (sg.id :> sg) @@ subgraphs

\* a remove that hands the entry out and keeps it in the map
RemoveKeeps(subgraphs, key) == subgraphs

\* HashMap::remove(key)
Remove(subgraphs, key) == [x \in DOMAIN subgraphs \ {key} |-> subgraphs[x]]

\* a push at the front of the Vec
PushFront(ts, tornado) == <<tornado>> \o ts

\* Vec::push(tornado)
Push(ts, tornado) == Append(ts, tornado)

RECURSIVE Perms(_)
\* the orders in which a HashMap can list the keys S
Perms(S) ==
  IF S = {} THEN {<<>>}
  ELSE UNION {{<<x>> \o s : s \in Perms(S \ {x})} : x \in S}

----------------------------------------------------------------------------
(* PromptProcessor::send_prompt, with distribute_fragments *)

SwarmPrompt(n, prompt, fragments) ==
  [id |-> PromptId(n), content |-> prompt, origin |-> <<0, 0, 0>>,
   status |-> "Sent", fragments |-> fragments]

\* the call: the prompt id is drawn and the prompt is fragmented
CallSendPrompt(p) ==
  /\ nextPrompt <= MaxPrompts
  /\ \E prompt \in Prompts :
       \E fragments \in FragmentPrompt(prompt, nextPrompt) :
         /\ Call(p, "sp_insert",
                 [NoLocals EXCEPT !.prompt = SwarmPrompt(nextPrompt, prompt, fragments)])
         /\ submitted' = Append(submitted, prompt)
  /\ nextPrompt' = nextPrompt + 1

\* self.active_prompts.write().await.insert(prompt_id, swarm_prompt.clone())
SendPromptInsert(p) ==
  /\ pc[p] = "sp_insert"
  /\ Granted(promptsLock, p, "w")
  /\ active_prompts' = (local[p].prompt.id :> local[p].prompt) @@ active_prompts
  /\ promptsLock' = Taken(promptsLock, p)
  /\ waiting' = [waiting EXCEPT ![p] = FALSE]
  /\ pc' = [pc EXCEPT ![p] = "df_read1"]
  /\ NoReturn
  /\ UNCHANGED <<tornadoes, poolLock, sgLock, local, nextPrompt, nextTornado,
                 calls, submitted>>

\* a distribute_fragments without the spawns into an empty swarm
AfterNoCheck(ts) == "df_read2"

\* if tornadoes.is_empty() { the three spawns }: where distribute_fragments
\* goes on after the check
AfterEmptyCheck(ts) == IF ts = <<>> THEN "df_spawn" ELSE "df_read2"

\* let tornadoes = self.swarm.tornadoes.read().await; if tornadoes.is_empty()
\* the guard is dropped; otherwise it lives to the end of the function
DistributeRead1(p) ==
  /\ pc[p] = "df_read1"
  /\ Granted(poolLock, p, "r")
  /\ waiting' = [waiting EXCEPT ![p] = FALSE]
  /\ poolLock' = IF tornadoes = <<>>
                   THEN Taken(poolLock, p)
                   ELSE Locked(Taken(poolLock, p), p, "r")
  /\ pc' = [pc EXCEPT ![p] = AfterEmptyCheck(tornadoes)]
  /\ NoReturn
  /\ UNCHANGED <<tornadoes, sgLock, active_prompts, promptsLock, local,
                 nextPrompt, nextTornado, calls, submitted>>

\* TornadoSwarm::spawn_tornado(position): self.tornadoes.write().await.push(tornado)
SpawnTornado(ts, id, position) == Push(ts, Tornado(id, position))

\* for i in 0..3 { self.swarm.spawn_tornado(pos).await }
DistributeSpawn(p) ==
  /\ pc[p] = "df_spawn"
  /\ Granted(poolLock, p, "w")
  /\ waiting' = [waiting EXCEPT ![p] = FALSE]
  /\ poolLock' = Taken(poolLock, p)
  /\ tornadoes' = SpawnTornado(tornadoes, TornadoId(nextTornado),
                               DefaultPosition(local[p].spawned))
  /\ sgLock' = Append(sgLock, FreeLock)
  /\ nextTornado' = nextTornado + 1
  /\ local' = [local EXCEPT ![p].spawned = @ + 1]
  /\ pc' = [pc EXCEPT ![p] =
       IF local[p].spawned + 1 < DefaultTornadoes THEN "df_spawn" ELSE "df_read2"]
  /\ NoReturn
  /\ UNCHANGED <<active_prompts, promptsLock, nextPrompt, calls, submitted>>

\* let tornadoes = self.swarm.tornadoes.read().await (the second guard)
DistributeRead2(p) ==
  /\ pc[p] = "df_read2"
  /\ Granted(poolLock, p, "r")
  /\ waiting' = [waiting EXCEPT ![p] = FALSE]
  /\ poolLock' = Locked(Taken(poolLock, p), p, "r")
  /\ local' = [local EXCEPT ![p].i = 0]
  /\ pc' = [pc EXCEPT ![p] =
       IF local[p].prompt.fragments = <<>> THEN "df_status" ELSE "df_sweep"]
  /\ NoReturn
  /\ UNCHANGED <<tornadoes, sgLock, active_prompts, promptsLock, nextPrompt,
                 nextTornado, calls, submitted>>

\* a distribute_fragments that gives every subgraph of a prompt one id
FragmentSubgraphSameId(prompt, i, strength) ==
  AddNode(NewSubgraph(SubgraphId(prompt.id[2], 1), strength),
          ComputeNode(NodeId(prompt.id[2], i + 1), prompt.fragments[i + 1].content))

\* the subgraph distribute_fragments makes for the i-th fragment (0-based)
FragmentSubgraph(prompt, i, strength) ==
  AddNode(NewSubgraph(SubgraphId(prompt.id[2], i + 1), strength),
          ComputeNode(NodeId(prompt.id[2], i + 1), prompt.fragments[i + 1].content))

\* one iteration of the loop over the fragments: the subgraph is made and
\* swept up by tornadoes[i % tornadoes.len()] (Tornado::sweep_up, under the
\* write lock of that tornado's map)
DistributeSweep(p) ==
  /\ pc[p] = "df_sweep"
  /\ IF Len(tornadoes) = 0
       THEN \* i % 0: attempt to calculate the remainder with a divisor of zero
            /\ Panicked(p)
            /\ poolLock' = [poolLock EXCEPT !.r[p] = 0]
            /\ UNCHANGED <<tornadoes, sgLock, waiting>>
       ELSE LET idx == TornadoIdx(local[p].i, Len(tornadoes))
                t == idx + 1
            IN  /\ Granted(sgLock[t], p, "w")
                /\ waiting' = [waiting EXCEPT ![p] = FALSE]
                /\ sgLock' = [sgLock EXCEPT ![t] = Taken(@, p)]
                /\ \E strength \in PromptStrengths :
                     tornadoes' = [tornadoes EXCEPT ![t].subgraphs =
                       SweepUp(@, FragmentSubgraph(local[p].prompt, local[p].i, strength))]
                /\ local' = [local EXCEPT
                     ![p].i = @ + 1,
                     ![p].swept = Append(@, [tornado_idx |-> idx,
                                             len |-> Len(tornadoes),
                                             tornado |-> tornadoes[t].id])]
                /\ pc' = [pc EXCEPT ![p] =
                     IF local[p].i + 1 < Len(local[p].prompt.fragments)
                       THEN "df_sweep" ELSE "df_status"]
                /\ NoReturn
                /\ UNCHANGED poolLock
  /\ UNCHANGED <<active_prompts, promptsLock, nextPrompt, nextTornado, calls,
                 submitted>>

\* a distribute_fragments that leaves the status as it is
SetInWhirlwindSkips(prompts, id) == prompts

\* p.status = PromptStatus::InWhirlwind
SetInWhirlwind(prompts, id) ==
  IF id \in DOMAIN prompts
    THEN [prompts EXCEPT ![id].status = "InWhirlwind"]
    ELSE prompts

\* self.active_prompts.write().await.get_mut(&prompt.id).map(...); then
\* distribute_fragments ends (its pool guards are dropped) and send_prompt
\* returns prompt_id
DistributeStatus(p) ==
  /\ pc[p] = "df_status"
  /\ Granted(promptsLock, p, "w")
  /\ waiting' = [waiting EXCEPT ![p] = FALSE]
  /\ promptsLock' = Taken(promptsLock, p)
  /\ active_prompts' = SetInWhirlwind(active_prompts, local[p].prompt.id)
  /\ poolLock' = [poolLock EXCEPT !.r[p] = 0]
  /\ Return(p, Returned("send_prompt", local[p].prompt.id, TRUE, <<>>))
  /\ UNCHANGED <<tornadoes, sgLock, nextPrompt, nextTornado, calls, submitted>>

SendPrompt(p) ==
  \/ CallSendPrompt(p)
  \/ SendPromptInsert(p)
  \/ DistributeRead1(p)
  \/ DistributeSpawn(p)
  \/ DistributeRead2(p)
  \/ DistributeSweep(p)
  \/ DistributeStatus(p)

----------------------------------------------------------------------------
(* PromptProcessor::process_step, with TornadoSwarm::simulate_step and        *)
(* Tornado::spin.  phase 1 is simulate_step, phase 2 the loop of process_step *)

CallProcessStep(p) ==
  /\ Call(p, "tick_read", [NoLocals EXCEPT !.phase = 1])
  /\ UNCHANGED <<nextPrompt, submitted>>

\* the loop over tornadoes.iter() is over: the pool guard is dropped;
\* simulate_step returns into process_step, or process_step returns.
\* spun lists the tornadoes the call has invoked spin() on so far
TickDone(p, loc) ==
  IF loc.phase = 1
    THEN /\ pc' = [pc EXCEPT ![p] = "tick_read"]
         /\ local' = [local EXCEPT ![p] =
              [NoLocals EXCEPT !.phase = 2, !.spun = loc.spun]]
         /\ NoReturn
    ELSE Return(p, NoRet)

\* spin of the k-th tornado has returned: on to the next tornado
SpinDone(p, loc) ==
  IF loc.k < Len(tornadoes)
    THEN /\ pc' = [pc EXCEPT ![p] = "spin_lock"]
         /\ local' = [local EXCEPT ![p] =
              [loc EXCEPT !.k = @ + 1, !.ids = {}, !.evals = 0,
                          !.spun = Append(@, loc.k + 1)]]
         /\ NoReturn
         /\ UNCHANGED poolLock
    ELSE /\ poolLock' = [poolLock EXCEPT !.r[p] = @ - 1]
         /\ TickDone(p, loc)

\* let tornadoes = self.tornadoes.read().await
TickRead(p) ==
  /\ pc[p] = "tick_read"
  /\ Granted(poolLock, p, "r")
  /\ waiting' = [waiting EXCEPT ![p] = FALSE]
  /\ IF tornadoes = <<>>
       THEN /\ poolLock' = Taken(poolLock, p)
            /\ TickDone(p, local[p])
       ELSE /\ poolLock' = Locked(Taken(poolLock, p), p, "r")
            /\ pc' = [pc EXCEPT ![p] = "spin_lock"]
            /\ local' = [local EXCEPT ![p].k = 1, ![p].spun = Append(@, 1)]
            /\ NoReturn
  /\ UNCHANGED <<tornadoes, sgLock, active_prompts, promptsLock, nextPrompt,
                 nextTornado, calls, submitted>>

\* let subgraphs = self.subgraphs.read().await; if subgraphs.len() < 2 { return }
\* let ids = subgraphs.keys().cloned().collect()
SpinLock(p) ==
  LET t == local[p].k IN
  /\ pc[p] = "spin_lock"
  /\ Granted(sgLock[t], p, "r")
  /\ waiting' = [waiting EXCEPT ![p] = FALSE]
  /\ IF Cardinality(DOMAIN tornadoes[t].subgraphs) < 2
       THEN /\ sgLock' = [sgLock EXCEPT ![t] = Taken(@, p)]
            /\ SpinDone(p, local[p])
       ELSE /\ sgLock' = [sgLock EXCEPT ![t] = Locked(Taken(@, p), p, "r")]
            /\ local' = [local EXCEPT ![p].ids = DOMAIN tornadoes[t].subgraphs]
            /\ pc' = [pc EXCEPT ![p] = "spin_pairs"]
            /\ NoReturn
            /\ UNCHANGED poolLock
  /\ UNCHANGED <<tornadoes, active_prompts, promptsLock, nextPrompt,
                 nextTornado, calls, submitted>>

\* a pair loop that merges the second subgraph of a connecting pair into
\* the first
SpinPairMerges(subgraphs, id1, id2) ==
  IF CanConnectWith(subgraphs[id1], subgraphs[id2])
    THEN [subgraphs EXCEPT ![id1] = Merge(@, subgraphs[id2])]
    ELSE subgraphs

\* what the body of the pair loop does to the map for the pair (id1, id2):
\* can_connect_with is evaluated and a connecting pair is printed
SpinPairEffect(subgraphs, id1, id2) == subgraphs

RECURSIVE SpinPairs(_, _, _, _)
\* for i in 0..ids.len() { for j in i+1..ids.len() { ... } } from (i, j) on,
\* 0-based: the map after the loops, the number of pairs evaluated, and
\* whether an unwrap() met None
SpinPairs(subgraphs, ids, i, j) ==
  IF ~(i < Len(ids))
    THEN [subgraphs |-> subgraphs, evals |-> 0, panic |-> FALSE]
    ELSE IF ~(j < Len(ids))
           THEN SpinPairs(subgraphs, ids, i + 1, i + 2)
           ELSE IF ~({ids[i + 1], ids[j + 1]} \subseteq DOMAIN subgraphs)
                  THEN [subgraphs |-> subgraphs, evals |-> 0, panic |-> TRUE]
                  ELSE LET rest == SpinPairs(
                                     SpinPairEffect(subgraphs, ids[i + 1], ids[j + 1]),
                                     ids, i, j + 1)
                       IN  [rest EXCEPT !.evals = @ + 1]

\* the two loops of spin over the pairs of ids, whose subgraphs are read
\* (no caller writes a subgraph, so these reads never wait); then spin
\* returns and its guard on the map is dropped
SpinScan(p) ==
  LET t == local[p].k IN
  /\ pc[p] = "spin_pairs"
  /\ \E ids \in Perms(local[p].ids) :
       LET out == SpinPairs(tornadoes[t].subgraphs, ids, 0, 1) IN
       /\ tornadoes' = [tornadoes EXCEPT ![t].subgraphs = out.subgraphs]
       /\ sgLock' = [sgLock EXCEPT ![t] = Unlocked(@, p, "r")]
       /\ IF out.panic
            THEN /\ Panicked(p)
                 /\ poolLock' = [poolLock EXCEPT !.r[p] = 0]
            ELSE SpinDone(p, [local[p] EXCEPT !.evals = out.evals])
  /\ UNCHANGED <<active_prompts, promptsLock, waiting, nextPrompt, nextTornado,
                 calls, submitted>>

ProcessStep(p) ==
  \/ CallProcessStep(p)
  \/ TickRead(p)
  \/ SpinLock(p)
  \/ SpinScan(p)

----------------------------------------------------------------------------
(* PromptProcessor::collect_results *)

\* the prompt ids callers ask for: those send_prompt returns and one that
\* no send_prompt ever returns
CollectIds == {PromptId(n) : n \in 1 .. MaxPrompts + 1}

CallCollectResults(p) ==
  /\ \E id \in CollectIds : Call(p, "cr_lock", [NoLocals EXCEPT !.arg = id])
  /\ UNCHANGED <<nextPrompt, submitted>>

\* a lookup that finds every id
HasPromptAlways(prompts, id) == TRUE

\* prompts.get_mut(&prompt_id) is Some
HasPrompt(prompts, id) == id \in DOMAIN prompts

\* let mut prompts = self.active_prompts.write().await;
\* if let Some(prompt) = prompts.get_mut(&prompt_id) { ... } else { None }
CollectLock(p) ==
  /\ pc[p] = "cr_lock"
  /\ Granted(promptsLock, p, "w")
  /\ waiting' = [waiting EXCEPT ![p] = FALSE]
  /\ IF HasPrompt(active_prompts, local[p].arg)
       THEN /\ promptsLock' = Locked(Taken(promptsLock, p), p, "w")
            /\ pc' = [pc EXCEPT ![p] = "cr_assembling"]
            /\ NoReturn
            /\ UNCHANGED local
       ELSE /\ promptsLock' = Taken(promptsLock, p)
            /\ Return(p, Returned("collect_results", local[p].arg, FALSE, <<>>))
  /\ UNCHANGED <<tornadoes, poolLock, sgLock, active_prompts, nextPrompt,
                 nextTornado, calls, submitted>>

\* prompt.status = PromptStatus::Assembling
CollectAssembling(p) ==
  /\ pc[p] = "cr_assembling"
  /\ active_prompts' = [active_prompts EXCEPT ![local[p].arg].status = "Assembling"]
  /\ pc' = [pc EXCEPT ![p] = "cr_complete"]
  /\ NoReturn
  /\ UNCHANGED <<tornadoes, poolLock, sgLock, promptsLock, waiting, local,
                 nextPrompt, nextTornado, calls, submitted>>

\* a processed_content that is the content as submitted
ProcessedContentRaw(prompt) == prompt.content

\* let processed_content = prompt.content.to_uppercase()
ProcessedContent(prompt) == ToUppercase(prompt.content)

\* a collect that consumes the prompt
CompletedEvicts(prompts, id) == [k \in DOMAIN prompts \ {id} |-> prompts[k]]

\* prompt.status = PromptStatus::Complete, the prompt staying in the map
Completed(prompts, id) == [prompts EXCEPT ![id].status = "Complete"]

\* prompt.status = PromptStatus::Complete; Some(processed_content)
CollectComplete(p) ==
  /\ pc[p] = "cr_complete"
  /\ active_prompts' = Completed(active_prompts, local[p].arg)
  /\ promptsLock' = Unlocked(promptsLock, p, "w")
  /\ Return(p, Returned("collect_results", local[p].arg, TRUE,
                         ProcessedContent(active_prompts[local[p].arg])))
  /\ UNCHANGED <<tornadoes, poolLock, sgLock, waiting, nextPrompt, nextTornado,
                 calls, submitted>>

CollectResults(p) ==
  \/ CallCollectResults(p)
  \/ CollectLock(p)
  \/ CollectAssembling(p)
  \/ CollectComplete(p)

----------------------------------------------------------------------------
(* TornadoSwarm::spawn_tornado called by a caller *)

CallSpawnTornado(p) ==
  /\ Call(p, "st_push", NoLocals)
  /\ UNCHANGED <<nextPrompt, submitted>>

\* self.tornadoes.write().await.push(tornado)
SpawnPush(p) ==
  /\ pc[p] = "st_push"
  /\ Granted(poolLock, p, "w")
  /\ waiting' = [waiting EXCEPT ![p] = FALSE]
  /\ poolLock' = Taken(poolLock, p)
  /\ \E position \in Positions :
       tornadoes' = SpawnTornado(tornadoes, TornadoId(nextTornado), position)
  /\ sgLock' = Append(sgLock, FreeLock)
  /\ nextTornado' = nextTornado + 1
  /\ Return(p, NoRet)
  /\ UNCHANGED <<active_prompts, promptsLock, nextPrompt, calls, submitted>>

Spawn(p) ==
  \/ CallSpawnTornado(p)
  \/ SpawnPush(p)

----------------------------------------------------------------------------
(* A transfer: a caller that holds a read guard on the pool releases count     *)
(* subgraphs from one tornado and sweeps each released subgraph up into a      *)
(* tornado (the redistribution of examples/visual_demo.rs)                     *)

RECURSIVE ReleaseLoop(_, _, _, _, _)
\* for i in 0..count.min(keys.len()) {
\*   if let Some(sg) = subgraphs.remove(&keys[i]) { released.push(sg) } }
\* from i (0-based) on; n is count.min(keys.len())
ReleaseLoop(subgraphs, keys, i, n, released) ==
  IF ~(i < n)
    THEN [subgraphs |-> subgraphs, released |-> released]
    ELSE IF keys[i + 1] \in DOMAIN subgraphs
           THEN ReleaseLoop(Remove(subgraphs, keys[i + 1]), keys, i + 1, n,
                            Append(released, subgraphs[keys[i + 1]]))
           ELSE ReleaseLoop(subgraphs, keys, i + 1, n, released)

\* a release whose loop runs over 0..=count
ReleaseInclusive(subgraphs, keys, count) ==
  ReleaseLoop(subgraphs, keys, 0, Min(count + 1, Len(keys)), <<>>)

\* Tornado::release(count) on a map whose keys() lists keys: the map left
\* and the Vec returned
Release(subgraphs, keys, count) ==
  ReleaseLoop(subgraphs, keys, 0, Min(count, Len(keys)), <<>>)

CallTransfer(p) ==
  /\ Call(p, "tr_read", NoLocals)
  /\ UNCHANGED <<nextPrompt, submitted>>

\* let tornadoes = swarm.tornadoes.read().await; a tornado and a count are picked
TransferRead(p) ==
  /\ pc[p] = "tr_read"
  /\ Granted(poolLock, p, "r")
  /\ waiting' = [waiting EXCEPT ![p] = FALSE]
  /\ IF tornadoes = <<>>
       THEN /\ poolLock' = Taken(poolLock, p)
            /\ Return(p, NoRet)
       ELSE /\ poolLock' = Locked(Taken(poolLock, p), p, "r")
            /\ \E src \in 1 .. Len(tornadoes), count \in 0 .. MaxCount :
                 local' = [local EXCEPT ![p].src = src, ![p].count = count]
            /\ pc' = [pc EXCEPT ![p] = "tr_release"]
            /\ NoReturn
  /\ UNCHANGED <<tornadoes, sgLock, active_prompts, promptsLock, nextPrompt,
                 nextTornado, calls, submitted>>

\* let released = tornado.release(count).await
TransferRelease(p) ==
  LET t == local[p].src IN
  /\ pc[p] = "tr_release"
  /\ Granted(sgLock[t], p, "w")
  /\ waiting' = [waiting EXCEPT ![p] = FALSE]
  /\ sgLock' = [sgLock EXCEPT ![t] = Taken(@, p)]
  /\ \E keys \in Perms(DOMAIN tornadoes[t].subgraphs) :
       LET out == Release(tornadoes[t].subgraphs, keys, local[p].count) IN
       /\ tornadoes' = [tornadoes EXCEPT ![t].subgraphs = out.subgraphs]
       /\ local' = [local EXCEPT ![p].released = out.released, ![p].i = 0,
                              ![p].held = Len(keys)]
       /\ evicted' = evicted \cup {out.released[n].id : n \in DOMAIN out.released}
  /\ pc' = [pc EXCEPT ![p] = "tr_target"]
  /\ ret' = [q \in Procs |-> NoRet]
  /\ UNCHANGED <<collected, objects>>
  /\ UNCHANGED <<poolLock, active_prompts, promptsLock, nextPrompt,
                 nextTornado, calls, submitted>>

\* the loop over the released subgraphs: a target tornado is picked for the
\* next one; after the last the pool guard is dropped
TransferTarget(p) ==
  /\ pc[p] = "tr_target"
  /\ IF local[p].i < Len(local[p].released)
       THEN /\ \E dst \in 1 .. Len(tornadoes) :
                 local' = [local EXCEPT ![p].dst = dst]
            /\ pc' = [pc EXCEPT ![p] = "tr_sweep"]
            /\ NoReturn
            /\ UNCHANGED poolLock
       ELSE /\ poolLock' = [poolLock EXCEPT !.r[p] = @ - 1]
            /\ Return(p, NoRet)
  /\ UNCHANGED <<tornadoes, sgLock, active_prompts, promptsLock, waiting,
                 nextPrompt, nextTornado, calls, submitted>>

\* tornadoes[target_idx].sweep_up(released[i]).await
TransferSweep(p) ==
  LET t == local[p].dst
      sg == local[p].released[local[p].i + 1]
  IN
  /\ pc[p] = "tr_sweep"
  /\ Granted(sgLock[t], p, "w")
  /\ waiting' = [waiting EXCEPT ![p] = FALSE]
  /\ sgLock' = [sgLock EXCEPT ![t] = Taken(@, p)]
  /\ tornadoes' = [tornadoes EXCEPT ![t].subgraphs = SweepUp(@, sg)]
  /\ local' = [local EXCEPT ![p].i = @ + 1, ![p].dst = 0]
  /\ pc' = [pc EXCEPT ![p] = "tr_target"]
  /\ NoReturn
  /\ UNCHANGED <<poolLock, active_prompts, promptsLock, nextPrompt,
                 nextTornado, calls, submitted>>

Transfer(p) ==
  \/ CallTransfer(p)
  \/ TransferRead(p)
  \/ TransferRelease(p)
  \/ TransferSweep(p)
  \/ TransferTarget(p)

----------------------------------------------------------------------------
(* The specification *)

Block(p) ==
  \/ BlockPool(p)
  \/ BlockPrompts(p)
  \/ BlockSubgraphs(p)

Next ==
  \E p \in Procs :
    \/ SendPrompt(p)
    \/ ProcessStep(p)
    \/ CollectResults(p)
    \/ Spawn(p)
    \/ Transfer(p)
    \/ Block(p)

Spec == Init /\ [][Next]_vars

----------------------------------------------------------------------------
(* One tornado on its own, as benches/swarm_benchmark.rs drives it: one      *)
(* caller sweeps subgraphs up, spins and releases.  Each of the three        *)
(* operations runs under the lock of the map from its first to its last      *)
(* access, so each is one step.  local[1] holds the last call's argument     *)
(* and result (held: the len() of the map when the call began), ret[1].op    *)
(* names the call.                                                           *)

\* largest count handed to release on the tornado
MaxRelease == 3
\* number of subgraph ids handed to the tornado
MaxUnits == 3

\* the subgraphs handed to the tornado: two subgraphs can share an id (a
\* clone whose strength was set since)
TornadoSubgraphs ==
  {AddNode(NewSubgraph(SubgraphId(0, n), strength),
           ComputeNode(NodeId(0, n), <<"x">>)) :
     n \in 1 .. MaxUnits, strength \in TornadoStrengths}

TornadoInit ==
  /\ NoObjects
  /\ collected = EmptyMap
  /\ evicted = {}
  /\ tornadoes = <<Tornado(TornadoId(1), <<0, 0, 0>>)>>
  /\ poolLock = FreeLock
  /\ sgLock = <<FreeLock>>
  /\ active_prompts = EmptyMap
  /\ promptsLock = FreeLock
  /\ pc = [p \in Procs |-> "idle"]
  /\ waiting = [p \in Procs |-> FALSE]
  /\ local = [p \in Procs |-> NoLocals]
  /\ ret = [p \in Procs |-> NoRet]
  /\ nextPrompt = 1
  /\ nextTornado = 2
  /\ calls = 0
  /\ submitted = <<>>

\* what a call on the tornado leaves alone
TornadoFrame ==
  UNCHANGED <<poolLock, sgLock, active_prompts, promptsLock, pc, waiting,
              nextPrompt, nextTornado, calls, submitted, collected, evicted,
              objects>>

\* tornado.sweep_up(subgraph).await
TornadoSweepUp ==
  /\ \E sg \in TornadoSubgraphs :
       /\ tornadoes' = [tornadoes EXCEPT ![1].subgraphs = SweepUp(@, sg)]
       /\ local' = [local EXCEPT ![1] =
            [NoLocals EXCEPT !.arg = sg.id, !.released = <<sg>>,
                             !.held = Cardinality(DOMAIN tornadoes[1].subgraphs)]]
  /\ ret' = [ret EXCEPT ![1] = Returned("sweep_up", NoId, FALSE, <<>>)]
  /\ TornadoFrame

\* Tornado::spin on the map: nothing below two subgraphs, else the pair
\* loops over keys() in the order ids
Spin(subgraphs, ids) ==
  IF Cardinality(DOMAIN subgraphs) < 2
    THEN [subgraphs |-> subgraphs, evals |-> 0, panic |-> FALSE]
    ELSE SpinPairs(subgraphs, ids, 0, 1)

\* tornado.spin().await
TornadoSpin ==
  /\ \E ids \in Perms(DOMAIN tornadoes[1].subgraphs) :
       LET out == Spin(tornadoes[1].subgraphs, ids) IN
       /\ tornadoes' = [tornadoes EXCEPT ![1].subgraphs = out.subgraphs]
       /\ local' = [local EXCEPT ![1] =
            [NoLocals EXCEPT !.evals = out.evals, !.held = Len(ids)]]
  /\ ret' = [ret EXCEPT ![1] = Returned("spin", NoId, FALSE, <<>>)]
  /\ TornadoFrame

\* let released = tornado.release(count).await
TornadoRelease ==
  /\ \E count \in 0 .. MaxRelease :
       \E keys \in Perms(DOMAIN tornadoes[1].subgraphs) :
         LET out == Release(tornadoes[1].subgraphs, keys, count) IN
         /\ tornadoes' = [tornadoes EXCEPT ![1].subgraphs = out.subgraphs]
         /\ local' = [local EXCEPT ![1] =
              [NoLocals EXCEPT !.count = count, !.released = out.released,
                               !.held = Len(keys)]]
  /\ ret' = [ret EXCEPT ![1] = Returned("release", NoId, FALSE, <<>>)]
  /\ TornadoFrame

TornadoNext ==
  \/ TornadoSweepUp
  \/ TornadoSpin
  \/ TornadoRelease

TornadoSpec == TornadoInit /\ [][TornadoNext]_vars

----------------------------------------------------------------------------
(* Subgraphs on their own, as tests/swarm_tests.rs drives them: a caller     *)
(* makes subgraphs, splits them, merges one into another and asks whether    *)
(* two connect.  units are the subgraphs the caller owns; result is the last *)
(* call with its arguments and what it returned.                             *)

\* number of subgraphs the caller owns at once
MaxOwned == 2
\* largest num_splits handed to split
MaxSplits == 2
\* number of Uuids drawn for subgraphs
MaxUnitIds == 5

\* the strengths drawn by Subgraph::new here: both ends of the range, a pair
\* that differs by the threshold (1, 4), the pairs of the test (5, 6), (1, 9)
UnitStrengths == {0, 1, 4, 5, 6, 9}

\* what is left unchanged by a call on the caller's subgraphs
UnitFrame ==
  UNCHANGED <<tornadoes, poolLock, sgLock, active_prompts, promptsLock, pc,
              waiting, local, ret, nextPrompt, nextTornado, calls, submitted,
              collected, evicted, model_layers, subgraph_mapping, frag>>

\* a children list that holds the last child only
PushChildOnly(children, id) == <<id>>

\* self.children.push(child.id)
PushChild(children, id) == Append(children, id)

RECURSIVE SplitLoop(_, _, _, _, _)
\* for _ in 0..num_splits { child = Subgraph::new(); child.parent = Some(self.id);
\* self.children.push(child.id); splits.push(child) } from iteration i (0-based)
\* on; the i-th child draws the id number first + i and the strength strengths[i + 1]
SplitLoop(self, i, first, strengths, splits) ==
  IF ~(i < Len(strengths))
    THEN [self |-> self, splits |-> splits]
    ELSE LET child == [NewSubgraph(SubgraphId(0, first + i), strengths[i + 1])
                         EXCEPT !.parent = self.id]
         IN  SplitLoop([self EXCEPT !.children = PushChild(@, child.id)],
                       i + 1, first, strengths, Append(splits, child))

\* Subgraph::split(num_splits), num_splits = Len(strengths)
Split(self, first, strengths) == SplitLoop(self, 0, first, strengths, <<>>)

\* the guards held on the RwLock around the graph of the subgraphs with
\* this id (a clone has the id and the Arc of its origin): the read guard a
\* merge holds on other.graph, and nothing else
GraphLock(id) ==
  IF result.op = "merge_read" /\ result.other.id = id
    THEN Locked(FreeLock, 1, "r")
    ELSE FreeLock

\* the caller is in no call
UnitIdle == result.op # "merge_read"

\* let subgraph = Subgraph::new()
UnitNew ==
  /\ UnitIdle
  /\ Len(units) < MaxOwned
  /\ nextUnit <= MaxUnitIds
  /\ \E strength \in UnitStrengths :
       LET sg == NewSubgraph(SubgraphId(0, nextUnit), strength) IN
       /\ units' = Append(units, sg)
       /\ result' = [op |-> "new", id |-> sg.id]
  /\ nextUnit' = nextUnit + 1
  /\ UnitFrame

\* let copy = units[u].clone(): the same id, the same Arc of the graph
UnitClone ==
  /\ UnitIdle
  /\ Len(units) < MaxOwned
  /\ \E u \in DOMAIN units :
       /\ units' = Append(units, units[u])
       /\ result' = [op |-> "clone", id |-> units[u].id]
  /\ UNCHANGED nextUnit
  /\ UnitFrame

\* let children = units[u].split(num_splits).await
UnitSplit ==
  /\ UnitIdle
  /\ \E u \in DOMAIN units, num_splits \in 0 .. MaxSplits :
       /\ nextUnit + num_splits <= MaxUnitIds + 1
       /\ \E strengths \in [1 .. num_splits -> UnitStrengths] :
            LET done == Split(units[u], nextUnit, strengths) IN
            /\ units' = [units EXCEPT ![u] = done.self]
            /\ result' = [op |-> "split", unit |-> u, num_splits |-> num_splits,
                          splits |-> done.splits]
       /\ nextUnit' = nextUnit + num_splits
  /\ UnitFrame

\* units[a].merge(units[b]).await: units[b] is moved into the call;
\* let other_graph = other.graph.read().await
UnitMergeRead ==
  /\ UnitIdle
  /\ \E a, b \in DOMAIN units :
       /\ a # b
       /\ units' = [n \in 1 .. Len(units) - 1 |->
                      units[IF n < b THEN n ELSE n + 1]]
       /\ result' = [op |-> "merge_read", self |-> IF a < b THEN a ELSE a - 1,
                     other |-> units[b]]
  /\ UNCHANGED nextUnit
  /\ UnitFrame

\* let mut self_graph = self.graph.write().await, granted when no guard is
\* held on self.graph; the nodes are added to the graph, which the clones
\* of self share; the strength is set; both guards are dropped; Ok(())
UnitMergeWrite ==
  /\ result.op = "merge_read"
  /\ Free(GraphLock(units[result.self].id), "w")
  /\ LET a == result.self
         merged == Merge(units[a], result.other)
     IN  /\ units' = [n \in DOMAIN units |->
                IF n = a THEN merged
                ELSE IF units[n].id = units[a].id
                       THEN [units[n] EXCEPT !.nodes = merged.nodes]
                       ELSE units[n]]
         /\ result' = [op |-> "merge", id |-> units[a].id,
                       strength |-> units[a].tornado_strength,
                       other |-> result.other.tornado_strength]
  /\ UNCHANGED nextUnit
  /\ UnitFrame

UnitMerge ==
  \/ UnitMergeRead
  \/ UnitMergeWrite

\* units[a].can_connect_with(&units[b])
UnitCanConnect ==
  /\ UnitIdle
  /\ \E a, b \in DOMAIN units :
       result' = [op |-> "can_connect_with", a |-> a, b |-> b,
                  value |-> CanConnectWith(units[a], units[b])]
  /\ UNCHANGED <<units, nextUnit>>
  /\ UnitFrame

SubgraphInit == Init

SubgraphNext ==
  \/ UnitNew
  \/ UnitClone
  \/ UnitSplit
  \/ UnitMerge
  \/ UnitCanConnect

SubgraphSpec == SubgraphInit /\ [][SubgraphNext]_vars

----------------------------------------------------------------------------
(* ModelDecomposer on its own: a caller holds a decomposer over some layers, *)
(* decomposes the model under a strategy and hands results for the subgraphs *)
(* it got back to reintegrate_results.  result is the last call: the         *)
(* subgraphs decompose_model returned, and for reintegrate_results the       *)
(* entries of the HashMap in the order it lists them and the String returned *)

\* largest number of layers of a model the caller sets up
MaxLayers == 2
\* decompose_model is not called once this many Uuids are drawn
MaxDecomposerIds == 4
\* largest number of results handed to reintegrate_results
MaxResults == 2

\* for head in 0..8
HeadCount == 8
\* let token_chunks = 4
TokenChunks == 4
\* layer_index * 1000 + chunk_index
KeyMultiplier == 1000

\* the layer types of the models the caller sets up
LayerTypes == {"Attention", "FeedForward"}

Strategies == {"LayerWise", "AttentionHeads", "TokenWise"}

\* the results handed in
ResultStrings == {<<"a">>, <<"b">>}

LayerId(n, k) == <<"layer", n, k>>

ModelLayer(id, layer_type) == [id |-> id, layer_type |-> layer_type]

\* the model of create_sample_model, its Uuids numbered from n
SampleModel(n) ==
  <<ModelLayer(LayerId(n, 1), "Embedding"), ModelLayer(LayerId(n, 2), "Attention"),
    ModelLayer(LayerId(n, 3), "FeedForward"), ModelLayer(LayerId(n, 4), "Output")>>

\* the models a caller sets up itself
Models ==
  UNION {[1 .. len -> LayerTypes] : len \in 0 .. MaxLayers}

\* a strategy under which every layer is split into heads
LayerPartsAllHeads(layer, strategy) ==
  CASE strategy = "LayerWise" -> <<[key |-> "none", index |-> 0]>>
    [] strategy = "AttentionHeads" ->
         [j \in 1 .. HeadCount |-> [key |-> "head_index", index |-> j - 1]]
    [] strategy = "TokenWise" ->
         [j \in 1 .. TokenChunks |-> [key |-> "chunk_index", index |-> j - 1]]

\* the subgraphs decompose_model makes for one layer, in the order it
\* pushes them: the metadata key of the index and the index
LayerParts(layer, strategy) ==
  CASE strategy = "LayerWise" -> <<[key |-> "none", index |-> 0]>>
    [] strategy = "AttentionHeads" ->
         IF layer.layer_type = "Attention"
           THEN [j \in 1 .. HeadCount |-> [key |-> "head_index", index |-> j - 1]]
           ELSE <<[key |-> "none", index |-> 0]>>
    [] strategy = "TokenWise" ->
         [j \in 1 .. TokenChunks |-> [key |-> "chunk_index", index |-> j - 1]]

\* the subgraph made for a part of a layer: its one node carries the
\* layer id and the index in its metadata
LayerSubgraph(layer, part, n) ==
  AddNode(NewSubgraph(SubgraphId(0, n), 2),
          [id |-> NodeId(0, n), operation |-> <<"Process", layer.layer_type>>,
           state |-> "Idle",
           metadata |-> [layer_id |-> layer.id, key |-> part.key, index |-> part.index]])

RECURSIVE DecomposeFrom(_, _, _, _)
\* for layer in &self.model_layers { ... } from the li-th layer (1-based) on;
\* n is the number of the next Uuid
DecomposeFrom(layers, li, strategy, n) ==
  IF li > Len(layers)
    THEN <<>>
    ELSE LET parts == LayerParts(layers[li], strategy)
         IN  [j \in 1 .. Len(parts) |-> LayerSubgraph(layers[li], parts[j], n + j - 1)]
               \o DecomposeFrom(layers, li + 1, strategy, n + Len(parts))

\* self.subgraph_mapping.insert(layer.id, subgraph.id): under LayerWise only
MappingAfter(mapping, strategy, subgraphs) ==
  IF strategy = "LayerWise"
    THEN LET ids == {subgraphs[j].nodes[1].metadata.layer_id : j \in DOMAIN subgraphs}
         IN  [id \in ids \cup DOMAIN mapping |->
                IF id \in ids
                  THEN subgraphs[CHOOSE j \in DOMAIN subgraphs :
                          subgraphs[j].nodes[1].metadata.layer_id = id
                          /\ \A k \in DOMAIN subgraphs :
                               subgraphs[k].nodes[1].metadata.layer_id = id => k <= j].id
                  ELSE mapping[id]]
    ELSE mapping

\* find_layer_for_subgraph, then position in model_layers (0-based); -1
\* when the subgraph is in no mapping entry or its layer is no layer of the
\* model
LayerIndex(layers, mapping, subgraph_id) ==
  IF \E id \in DOMAIN mapping : mapping[id] = subgraph_id
    THEN LET layer_id == CHOOSE id \in DOMAIN mapping : mapping[id] = subgraph_id
         IN  IF \E li \in DOMAIN layers : layers[li].id = layer_id
               THEN (CHOOSE li \in DOMAIN layers :
                       layers[li].id = layer_id
                       /\ \A lj \in DOMAIN layers : layers[lj].id = layer_id => li <= lj) - 1
               ELSE -1
    ELSE -1

\* let chunk_index = 0
ChunkIndex(subgraph_id) == 0

RECURSIVE SortedResults(_, _, _, _)
\* the loop over subgraph_results in the order entries: the (result, key)
\* pairs pushed
SortedResults(layers, mapping, entries, i) ==
  IF i > Len(entries)
    THEN <<>>
    ELSE LET layer_index == LayerIndex(layers, mapping, entries[i][1])
             rest == SortedResults(layers, mapping, entries, i + 1)
         IN  IF layer_index >= 0
               THEN <<<<entries[i][2],
                        layer_index * KeyMultiplier + ChunkIndex(entries[i][1])>>>> \o rest
               ELSE rest

RECURSIVE SortByKey(_)
\* sort_by_key(|(_, index)| *index): a stable sort
SortByKey(pairs) ==
  IF pairs = <<>>
    THEN <<>>
    ELSE LET least == CHOOSE i \in DOMAIN pairs :
                        /\ \A j \in DOMAIN pairs : pairs[i][2] <= pairs[j][2]
                        /\ \A j \in DOMAIN pairs : pairs[j][2] = pairs[i][2] => i <= j
         IN  <<pairs[least]>>
               \o SortByKey([j \in 1 .. Len(pairs) - 1 |->
                               IF j < least THEN pairs[j] ELSE pairs[j + 1]])

\* ModelDecomposer::reintegrate_results on a HashMap that lists entries
Reintegrate(layers, mapping, entries) ==
  LET sorted == SortByKey(SortedResults(layers, mapping, entries, 1))
  IN  JoinWords([j \in DOMAIN sorted |-> sorted[j][1]])

\* what is left unchanged by a call on the decomposer
DecomposerFrame ==
  UNCHANGED <<tornadoes, poolLock, sgLock, active_prompts, promptsLock, pc,
              waiting, local, ret, nextPrompt, nextTornado, calls, submitted,
              collected, evicted, units, frag>>

\* ModelDecomposer::new(), then model_layers set to a model
DecomposerInit ==
  /\ tornadoes = <<>>
  /\ poolLock = FreeLock
  /\ sgLock = <<>>
  /\ active_prompts = EmptyMap
  /\ promptsLock = FreeLock
  /\ pc = [p \in Procs |-> "idle"]
  /\ waiting = [p \in Procs |-> FALSE]
  /\ local = [p \in Procs |-> NoLocals]
  /\ ret = [p \in Procs |-> NoRet]
  /\ nextPrompt = 1
  /\ nextTornado = 1
  /\ calls = 0
  /\ submitted = <<>>
  /\ collected = EmptyMap
  /\ evicted = {}
  /\ units = <<>>
  /\ nextUnit = 1
  /\ result = NoResult
  /\ \E types \in Models :
       model_layers = [li \in DOMAIN types |-> ModelLayer(LayerId(0, li), types[li])]
  /\ subgraph_mapping = EmptyMap
  /\ frag = NoFrag

\* decomposer.create_sample_model()
CreateSampleModel ==
  /\ nextUnit <= MaxDecomposerIds
  /\ model_layers' = SampleModel(nextUnit)
  /\ nextUnit' = nextUnit + 1
  /\ result' = [op |-> "create_sample_model"]
  /\ UNCHANGED subgraph_mapping
  /\ DecomposerFrame

\* let subgraphs = decomposer.decompose_model(strategy).await
DecomposeModel ==
  /\ nextUnit <= MaxDecomposerIds
  /\ \E strategy \in Strategies :
       LET subgraphs == DecomposeFrom(model_layers, 1, strategy, nextUnit) IN
       /\ subgraph_mapping' = MappingAfter(subgraph_mapping, strategy, subgraphs)
       /\ nextUnit' = nextUnit + Len(subgraphs)
       /\ result' = [op |-> "decompose_model", strategy |-> strategy,
                     subgraphs |-> subgraphs]
  /\ UNCHANGED model_layers
  /\ DecomposerFrame

\* decomposer.reintegrate_results(subgraph_results).await, the results those
\* of some of the subgraphs the last decompose_model returned
ReintegrateResults ==
  /\ result.op = "decompose_model"
  /\ \E ids \in SUBSET {result.subgraphs[j].id : j \in DOMAIN result.subgraphs} :
       /\ Cardinality(ids) <= MaxResults
       /\ \E order \in Perms(ids) :
            \E results \in [DOMAIN order -> ResultStrings] :
              LET entries == [j \in DOMAIN order |-> <<order[j], results[j]>>] IN
              result' = [op |-> "reintegrate_results", strategy |-> result.strategy,
                         subgraphs |-> result.subgraphs, entries |-> entries,
                         output |-> Reintegrate(model_layers, subgraph_mapping, entries)]
  /\ UNCHANGED <<model_layers, subgraph_mapping, nextUnit>>
  /\ DecomposerFrame

DecomposerNext ==
  \/ CreateSampleModel
  \/ DecomposeModel
  \/ ReintegrateResults

DecomposerSpec == DecomposerInit /\ [][DecomposerNext]_vars

----------------------------------------------------------------------------
(* fragment_prompt, one iteration of its loop at a time (FragmentSpec) *)

\* the longest prompt handed to fragment_prompt
MaxPromptLen == 7

\* the characters of the prompts handed to fragment_prompt
PromptChars == {"a", "b", " "}

\* the prompts handed to fragment_prompt
FragmentPrompts == UNION {[1 .. len -> PromptChars] : len \in 0 .. MaxPromptLen}

\* what is left unchanged by a run of fragment_prompt
FragmentFrame ==
  UNCHANGED <<tornadoes, poolLock, sgLock, active_prompts, promptsLock, pc,
              waiting, local, ret, nextPrompt, nextTornado, calls, submitted,
              collected, evicted, units, nextUnit, result, model_layers,
              subgraph_mapping>>

FragmentInit == Init

\* the call: words is collected, fragments is empty, i = 0
FragmentCall ==
  /\ frag.pc = "none"
  /\ \E prompt \in FragmentPrompts :
       frag' = [pc |-> "loop", prompt |-> prompt, words |-> SplitWhitespace(prompt),
                fragments |-> <<>>, i |-> 0]
  /\ FragmentFrame

\* one iteration of while i < words.len()
FragmentStep ==
  /\ frag.pc = "loop"
  /\ frag.i < Len(frag.words)
  /\ \E fragment_size \in FragmentSizes :
       LET end == Min(frag.i + fragment_size, Len(frag.words))
           fragment_content == JoinWords(SubSeq(frag.words, frag.i + 1, end))
       IN  frag' = [frag EXCEPT
             !.fragments = Append(@, PromptFragment(0, Len(@) + 1, fragment_content)),
             !.i = end]
  /\ FragmentFrame

\* the loop is left and fragments is returned
FragmentReturn ==
  /\ frag.pc = "loop"
  /\ ~(frag.i < Len(frag.words))
  /\ frag' = [frag EXCEPT !.pc = "done"]
  /\ FragmentFrame

FragmentNext ==
  \/ FragmentCall
  \/ FragmentStep
  \/ FragmentReturn

\* a run of fragment_prompt is sequential code: once called it keeps running
FragmentSpec ==
  /\ FragmentInit
  /\ [][FragmentNext]_vars
  /\ WF_vars(FragmentStep)
  /\ WF_vars(FragmentReturn)

----------------------------------------------------------------------------
(* EnhancedProcessor::process_prompt on its own.  The processor owns its     *)
(* swarm and its decomposer and the call takes &mut self, so nothing runs    *)
(* beside it: each of its loops is one step.  result is the call: where it   *)
(* stands (at), the subgraphs decomposed, the results, the output, and the   *)
(* steps it has completed, in order                                          *)

\* the largest swarm handed to EnhancedProcessor::new
MaxPool == 2

\* what is left unchanged by a step of process_prompt
EnhancedFrame ==
  UNCHANGED <<poolLock, sgLock, active_prompts, promptsLock, pc, waiting,
              local, ret, nextPrompt, nextTornado, calls, submitted, collected,
              evicted, units, model_layers, subgraph_mapping, frag>>

\* EnhancedProcessor::new(swarm, decomposer): a swarm of some tornadoes that
\* hold nothing, a decomposer over some layers
EnhancedInit ==
  /\ \E len \in 0 .. MaxPool :
       tornadoes = [t \in 1 .. len |-> Tornado(TornadoId(t), <<0, 0, 0>>)]
  /\ poolLock = FreeLock
  /\ sgLock = <<>>
  /\ active_prompts = EmptyMap
  /\ promptsLock = FreeLock
  /\ pc = [p \in Procs |-> "idle"]
  /\ waiting = [p \in Procs |-> FALSE]
  /\ local = [p \in Procs |-> NoLocals]
  /\ ret = [p \in Procs |-> NoRet]
  /\ nextPrompt = 1
  /\ nextTornado = 1
  /\ calls = 0
  /\ submitted = <<>>
  /\ collected = EmptyMap
  /\ evicted = {}
  /\ units = <<>>
  /\ nextUnit = 1
  /\ result = NoResult
  /\ \E types \in Models :
       model_layers = [li \in DOMAIN types |-> ModelLayer(LayerId(0, li), types[li])]
  /\ subgraph_mapping = EmptyMap
  /\ frag = NoFrag

\* tornado.sweep_up_subgraph(subgraph): the tornado ingests the subgraph
SweepUpSubgraph(subgraphs, sg) == (sg.id :> sg) @@ subgraphs

\* tornado.release_subgraphs(): the tornado gives up all it holds
ReleaseSubgraphs(subgraphs) == EmptyMap

\* self.process_subgraph(subgraph, prompt): a String that tells the type
ProcessSubgraph(sg, prompt) == <<sg.nodes[1].operation[2], prompt>>

RECURSIVE DistributeFrom(_, _, _)
\* for (i, subgraph) in subgraphs.iter().enumerate() {
\*   self.swarm.tornadoes[i % len].sweep_up_subgraph(subgraph.clone()) }
\* from i (0-based) on
DistributeFrom(ts, subgraphs, i) ==
  IF ~(i < Len(subgraphs))
    THEN ts
    ELSE DistributeFrom(
           [ts EXCEPT ![(i % Len(ts)) + 1].subgraphs =
              SweepUpSubgraph(@, subgraphs[i + 1])],
           subgraphs, i + 1)

\* processor.process_prompt(prompt).await is called
EnhancedCall ==
  /\ result.op = "none"
  /\ \E prompt \in Prompts :
       result' = [op |-> "process_prompt", at |-> "decompose", prompt |-> prompt,
                  subgraphs |-> <<>>, results |-> <<>>, output |-> <<>>,
                  steps |-> <<>>]
  /\ UNCHANGED <<tornadoes, nextUnit>>
  /\ EnhancedFrame

\* let subgraphs = self.decomposer.decompose_model(..)?
EnhancedDecompose ==
  /\ result.op = "process_prompt"
  /\ result.at = "decompose"
  /\ \E strategy \in Strategies :
       LET subgraphs == DecomposeFrom(model_layers, 1, strategy, nextUnit) IN
       /\ result' = [result EXCEPT !.at = "distribute", !.subgraphs = subgraphs,
                                   !.steps = Append(@, "decompose")]
       /\ nextUnit' = nextUnit + Len(subgraphs)
  /\ UNCHANGED tornadoes
  /\ EnhancedFrame

\* the loop that distributes the subgraphs; i % 0 panics
EnhancedDistribute ==
  /\ result.op = "process_prompt"
  /\ result.at = "distribute"
  /\ IF result.subgraphs # <<>> /\ tornadoes = <<>>
       THEN /\ result' = [result EXCEPT !.at = "panicked"]
            /\ UNCHANGED tornadoes
       ELSE /\ tornadoes' = DistributeFrom(tornadoes, result.subgraphs, 0)
            /\ result' = [result EXCEPT !.at = "spin",
                                        !.steps = Append(@, "distribute")]
  /\ UNCHANGED nextUnit
  /\ EnhancedFrame

\* for tornado in &mut self.swarm.tornadoes { tornado.spin() }
EnhancedSpin ==
  /\ result.op = "process_prompt"
  /\ result.at = "spin"
  /\ result' = [result EXCEPT !.at = "process", !.steps = Append(@, "interact")]
  /\ UNCHANGED <<tornadoes, nextUnit>>
  /\ EnhancedFrame

\* the loop over distributed_subgraphs: results.push(process_subgraph(..)?)
EnhancedProcess ==
  /\ result.op = "process_prompt"
  /\ result.at = "process"
  /\ result' = [result EXCEPT
       !.at = "reintegrate",
       !.results = [j \in DOMAIN result.subgraphs |->
                      ProcessSubgraph(result.subgraphs[j], result.prompt)],
       !.steps = Append(@, "process")]
  /\ UNCHANGED <<tornadoes, nextUnit>>
  /\ EnhancedFrame

\* let final_result = self.reintegrate_results(results, prompt).await?
EnhancedReintegrate ==
  /\ result.op = "process_prompt"
  /\ result.at = "reintegrate"
  /\ result' = [result EXCEPT !.at = "release", !.output = result.results,
                              !.steps = Append(@, "reintegrate")]
  /\ UNCHANGED <<tornadoes, nextUnit>>
  /\ EnhancedFrame

\* for tornado in &mut self.swarm.tornadoes { tornado.release_subgraphs() }
EnhancedRelease ==
  /\ result.op = "process_prompt"
  /\ result.at = "release"
  /\ tornadoes' = [t \in DOMAIN tornadoes |->
       [tornadoes[t] EXCEPT !.subgraphs = ReleaseSubgraphs(@)]]
  /\ result' = [result EXCEPT !.at = "return", !.steps = Append(@, "release")]
  /\ UNCHANGED nextUnit
  /\ EnhancedFrame

\* Ok(SwarmPromptResult { status: Completed, output: Some(final_result), .. })
EnhancedReturn ==
  /\ result.op = "process_prompt"
  /\ result.at = "return"
  /\ result' = [result EXCEPT !.at = "returned"]
  /\ UNCHANGED <<tornadoes, nextUnit>>
  /\ EnhancedFrame

EnhancedNext ==
  \/ EnhancedCall
  \/ EnhancedDecompose
  \/ EnhancedDistribute
  \/ EnhancedSpin
  \/ EnhancedProcess
  \/ EnhancedReintegrate
  \/ EnhancedRelease
  \/ EnhancedReturn

EnhancedSpec == EnhancedInit /\ [][EnhancedNext]_vars

----------------------------------------------------------------------------
(* A swarm in the whirlwind: one tornado that holds the subgraphs of two     *)
(* prompts, as after spawn_tornado, send_prompt("Test prompt") and           *)
(* send_prompt("hi ") have returned.  From there callers advance the swarm   *)
(* (process_step, which spins the tornado) and move subgraphs (release and   *)
(* sweep_up) concurrently.  calls counts the calls made from this state on.  *)

\* the subgraphs distribute_fragments has swept up for prompt
SweptUp(prompt, strength) ==
  {FragmentSubgraph(prompt, i, strength) : i \in 0 .. Len(prompt.fragments) - 1}

ScanInit ==
  /\ NoObjects
  /\ collected = EmptyMap
  /\ evicted = {}
  /\ \E f1 \in FragmentPrompt(Str_Test_prompt, 1), f2 \in FragmentPrompt(Str_hi_, 2),
        strength \in PromptStrengths :
       LET p1 == SwarmPrompt(1, Str_Test_prompt, f1)
           p2 == SwarmPrompt(2, Str_hi_, f2)
           sgs == SweptUp(p1, strength) \cup SweptUp(p2, strength)
       IN  /\ tornadoes =
                <<[Tornado(TornadoId(1), <<0, 0, 0>>) EXCEPT !.subgraphs =
                    [id \in {sg.id : sg \in sgs} |-> CHOOSE sg \in sgs : sg.id = id]]>>
           /\ active_prompts =
                SetInWhirlwind(SetInWhirlwind((p1.id :> p1) @@ (p2.id :> p2), p1.id),
                               p2.id)
  /\ poolLock = FreeLock
  /\ sgLock = <<FreeLock>>
  /\ promptsLock = FreeLock
  /\ pc = [p \in Procs |-> "idle"]
  /\ waiting = [p \in Procs |-> FALSE]
  /\ local = [p \in Procs |-> NoLocals]
  /\ ret = [p \in Procs |-> NoRet]
  /\ nextPrompt = 3
  /\ nextTornado = 2
  /\ calls = 0
  /\ submitted = <<Str_Test_prompt, Str_hi_>>

ScanNext ==
  \E p \in Procs :
    \/ ProcessStep(p)
    \/ Transfer(p)
    \/ BlockSubgraphs(p)

ScanSpec == ScanInit /\ [][ScanNext]_vars

----------------------------------------------------------------------------
(* Properties of the swarm under concurrent callers (Spec) *)

\* C1: exclusive ownership.  In every reachable state, under any
\* interleaving of send_prompt, process_step, collect_results, spawn_tornado
\* and transfers (release followed by sweep_up of the released subgraphs),
\* each subgraph id is a key of at most one tornado's map.
ExclusiveOwnership ==
  \A t1, t2 \in DOMAIN tornadoes :
    t1 # t2 =>
      DOMAIN tornadoes[t1].subgraphs \cap DOMAIN tornadoes[t2].subgraphs = {}

\* a transfer has moved a released subgraph into another tornado than the
\* one that released it
ExclusiveOwnershipWitness ==
  \E p \in Procs :
    /\ pc[p] = "tr_target"
    /\ local[p].i = 1
    /\ \E t \in DOMAIN tornadoes :
         /\ t # local[p].src
         /\ local[p].released[1].id \in DOMAIN tornadoes[t].subgraphs

\* C2: round-robin distribution.  While a call distributes the k subgraphs
\* of a prompt over a pool of p > 0 tornadoes, the i-th subgraph (0-based)
\* was swept up by the tornado at pool index i mod p, where p is one and
\* the same pool length for every subgraph of the batch and is still the
\* length of the pool (a concurrent spawn_tornado waits); when the batch is
\* done, the numbers of subgraphs each tornado received are those of
\* i mod p over 0 .. k-1, so they sum to k.
RoundRobin ==
  \A p \in Procs :
    LET swept == local[p].swept
        k == Len(local[p].prompt.fragments)
        len == Len(tornadoes)
    IN  /\ \A n \in DOMAIN swept :
             /\ swept[n].len = len
             /\ len > 0
             /\ swept[n].tornado_idx = (n - 1) % len
             /\ swept[n].tornado = tornadoes[((n - 1) % len) + 1].id
        /\ pc[p] = "df_status" =>
             /\ Len(swept) = k
             /\ \A w \in 0 .. len - 1 :
                  Cardinality({n \in 1 .. k : swept[n].tornado_idx = w})
                    = Cardinality({i \in 0 .. k - 1 : i % len = w})

\* a batch of two subgraphs is distributed over a pool of one tornado (both
\* go to index 0) while a spawn_tornado of another caller waits
RoundRobinWitness ==
  \E p, q \in Procs :
    /\ pc[p] = "df_status"
    /\ Len(local[p].swept) = 2
    /\ local[p].swept[2].tornado_idx = 0
    /\ pc[q] = "st_push"
    /\ waiting[q]

\* C3: empty-pool auto-heal.  A send_prompt that finds the pool empty when
\* it reaches distribute_fragments spawns the 3 default tornadoes before it
\* sweeps any subgraph up; the loop over the fragments never runs against a
\* pool of length 0 (no remainder by zero, no caller panics), and
\* send_prompt returns the prompt id.
AutoHeal ==
  [][\A p \in Procs :
       /\ (pc[p] = "df_read1" /\ pc'[p] # "df_read1" /\ tornadoes = <<>>)
            => /\ pc'[p] = "df_spawn"
               /\ local'[p].spawned = 0
               /\ local'[p].swept = <<>>
       /\ (pc[p] = "df_spawn" /\ pc'[p] # "df_spawn")
            => /\ pc'[p] = "df_read2"
               /\ local'[p].spawned = 3
               /\ local'[p].swept = <<>>
               /\ Len(tornadoes') >= 3
       /\ pc'[p] = "df_sweep" => Len(tornadoes') > 0
       /\ local'[p].swept # local[p].swept /\ local'[p].swept # <<>>
            => Len(tornadoes) > 0
       /\ pc'[p] # "panicked"
       /\ (pc[p] = "df_status" /\ pc'[p] # "df_status")
            => ret'[p] = Returned("send_prompt", local[p].prompt.id, TRUE, <<>>)
    ]_vars

\* a send_prompt that found the pool empty has spawned its three tornadoes
\* and swept all its subgraphs up
AutoHealWitness ==
  \E p \in Procs :
    /\ pc[p] = "df_status"
    /\ local[p].spawned = 3
    /\ local[p].swept # <<>>
    /\ Len(tornadoes) >= 3

\* C7: the pool is append-only.  A new swarm has no tornado; a
\* spawn_tornado (called by a caller or by distribute_fragments) makes the
\* pool one longer and puts the new, empty tornado at the index that was the
\* length; no step of any operation removes a tornado or changes the index
\* of one, and no other step changes the length.
PoolAppendOnly ==
  /\ tornadoes = <<>>
  /\ [][LET len == Len(tornadoes)
            spawn == \E p \in Procs :
                       \/ pc[p] = "st_push" /\ pc'[p] = "idle"
                       \/ /\ pc[p] = "df_spawn"
                          /\ local'[p].spawned = local[p].spawned + 1
        IN  /\ \A t \in DOMAIN tornadoes :
                 /\ t \in DOMAIN tornadoes'
                 /\ tornadoes'[t].id = tornadoes[t].id
                 /\ tornadoes'[t].eye = tornadoes[t].eye
            /\ spawn =>
                 /\ Len(tornadoes') = len + 1
                 /\ tornadoes'[len + 1].subgraphs = EmptyMap
                 /\ \A t \in DOMAIN tornadoes :
                      tornadoes'[len + 1].id # tornadoes[t].id
            /\ ~spawn => Len(tornadoes') = len
       ]_vars

\* a caller's spawn_tornado has put a fourth tornado behind the three that
\* distribute_fragments spawned, and one of those holds a subgraph
PoolAppendOnlyWitness ==
  /\ Len(tornadoes) = 4
  /\ tornadoes[2].eye = DefaultPosition(1)
  /\ tornadoes[4].eye \in Positions
  /\ \E t \in 1 .. 3 : tornadoes[t].subgraphs # EmptyMap

\* C8: end to end.  A collect_results of the id a send_prompt has returned
\* returns Some of the upper-cased content the prompt was submitted with
\* ("Test prompt" gives "TEST PROMPT"), whatever process_step calls and
\* other callers' send_prompt calls came between.  (The send_prompt of the
\* n-th id has returned when the id is drawn and no caller is in that call.)
CollectUppercase ==
  \A p \in Procs :
    LET id == ret[p].arg
        n == id[2]
    IN  ( /\ ret[p].op = "collect_results"
          /\ n \in 1 .. Len(submitted)
          /\ \A q \in Procs : local[q].prompt.id # id )
          => /\ ret[p].some
             /\ ret[p].val = ToUppercase(submitted[n])
             /\ submitted[n] = Str_Test_prompt
                  => ret[p].val =
                       <<"T", "E", "S", "T", " ", "P", "R", "O", "M", "P", "T">>

\* "Test prompt" was submitted into an empty swarm, which spawned its three
\* tornadoes; send_prompt returned and a collect_results of its id has
\* returned "TEST PROMPT"
CollectUppercaseWitness ==
  \E p \in Procs :
    /\ ret[p].op = "collect_results"
    /\ ret[p].some
    /\ ret[p].val = <<"T", "E", "S", "T", " ", "P", "R", "O", "M", "P", "T">>
    /\ \A q \in Procs : local[q].prompt.id # ret[p].arg
    /\ Len(tornadoes) = 3

\* C9: collect_results(id) for an id no send_prompt has drawn returns None
\* without a panic, and leaves active_prompts (so every prompt's status),
\* the pool and every tornado's map unchanged.
CollectUnknown ==
  [][\A p \in Procs :
       ( /\ pc[p] = "cr_lock"
         /\ pc'[p] # "cr_lock"
         /\ local[p].arg[2] >= nextPrompt )
         => /\ pc'[p] = "idle"
            /\ ret'[p] = Returned("collect_results", local[p].arg, FALSE, <<>>)
            /\ active_prompts' = active_prompts
            /\ tornadoes' = tornadoes
    ]_vars

\* a collect_results of an id that was never drawn has returned None while
\* a prompt is held and distributed
CollectUnknownWitness ==
  \E p \in Procs :
    /\ ret[p].op = "collect_results"
    /\ ~ret[p].some
    /\ ret[p].arg[2] >= nextPrompt
    /\ active_prompts # EmptyMap
    /\ \E t \in DOMAIN tornadoes : tornadoes[t].subgraphs # EmptyMap

\* C10: the lifecycle of a prompt.  Every change of the status of a prompt
\* in active_prompts is one step of the chain Sent -> InWhirlwind ->
\* Processing -> Assembling -> Complete: no state is skipped and no change
\* goes backwards.
StatusChain ==
  [][\A id \in DOMAIN active_prompts :
       LET old == active_prompts[id].status
           new == active_prompts'[id].status
       IN  \/ new = old
           \/ <<old, new>> \in {<<"Sent", "InWhirlwind">>,
                                <<"InWhirlwind", "Processing">>,
                                <<"Processing", "Assembling">>,
                                <<"Assembling", "Complete">>}
    ]_vars

\* C11: deadlock freedom.  With fair (FIFO, writer-queuing) locks, no
\* reachable state has a set of callers that wait on each other forever:
\* whenever some call has started and not returned, one of the started calls
\* can take its next step (its lock request is granted, or it asks for no
\* lock).
DeadlockFreedom ==
  LET InCall(p) == pc[p] \notin {"idle", "panicked"}
      Proceeds(p) ==
        \/ PoolMode(p) # "-" /\ Granted(poolLock, p, PoolMode(p))
        \/ PromptsMode(p) # "-" /\ Granted(promptsLock, p, PromptsMode(p))
        \/ SgTarget(p) # 0 /\ Granted(sgLock[SgTarget(p)], p, SgMode(p))
        \/ pc[p] \in {"cr_assembling", "cr_complete", "spin_pairs", "tr_target"}
  IN  (\E p \in Procs : InCall(p)) => (\E p \in Procs : InCall(p) /\ Proceeds(p))

\* C12: no operation holds more than one lock at a time.  In every state
\* every caller holds at most one guard among the guards on the pool lock,
\* on the active_prompts lock and on the tornadoes' map locks (two guards on
\* one lock count as two).
OneGuardAtATime ==
  LET Held(l, name, p) ==
        {<<name, "r", n>> : n \in 1 .. l.r[p]}
          \cup (IF l.w = p THEN {<<name, "w", 1>>} ELSE {})
      Guards(p) ==
        Held(poolLock, <<"tornadoes">>, p)
          \cup Held(promptsLock, <<"active_prompts">>, p)
          \cup UNION {Held(sgLock[t], <<"subgraphs", t>>, p) : t \in DOMAIN sgLock}
  IN  \A p \in Procs : Cardinality(Guards(p)) <= 1

\* C18: collect is repeatable.  After a collect_results(id) has returned
\* Some, every later collect_results(id) returns Some of the same content as
\* the first (the prompt is retained in active_prompts, not consumed), and
\* the prompt's status is Complete after each such call.
CollectRepeatable ==
  [][\A p \in Procs :
       LET id == ret'[p].arg IN
       /\ (ret'[p].op = "collect_results" /\ id \in DOMAIN collected)
            => /\ ret'[p].some
               /\ ret'[p].val = collected[id][1]
       /\ (ret'[p].op = "collect_results" /\ ret'[p].some)
            => /\ id \in DOMAIN active_prompts'
               /\ active_prompts'[id].status = "Complete"
    ]_vars

\* a second collect_results of an id has returned the content the first
\* returned
CollectRepeatableWitness ==
  \E p \in Procs :
    /\ ret[p].op = "collect_results"
    /\ ret[p].some
    /\ Len(collected[ret[p].arg]) >= 2
    /\ ret[p].val = collected[ret[p].arg][1]

\* C20: one process_step performs exactly one simulate_step.  When a
\* process_step returns, spin() has been invoked exactly once on each
\* tornado of the pool it ticked, in ascending pool-index order: the
\* tornadoes spun are 1, 2, ..., m for some m up to the size of the pool.
OneTickPerAdvance ==
  [][\A p \in Procs :
       (pc[p] \in {"tick_read", "spin_lock", "spin_pairs"} /\ pc'[p] = "idle")
         => \E m \in 0 .. Len(tornadoes) :
              local[p].spun = [t \in 1 .. m |-> t]
    ]_vars

\* C21: Complete is terminal.  Once a collect_results of an id has returned
\* Some (the prompt's status was Complete then), the status of that prompt
\* is Complete in every later state in which no caller holds the write guard
\* of active_prompts, whatever the prompt's send_prompt (its distribution
\* still running), process_step calls and collect_results calls do.
CompleteTerminal ==
  \A id \in DOMAIN collected :
    promptsLock.w = 0 => active_prompts[id].status = "Complete"

\* some caller is inside a send_prompt
Submitting == \E p \in Procs : local[p].prompt # NoPrompt

\* the number of subgraphs held over all tornadoes
HeldTotal ==
  LET RECURSIVE Sum(_)
      Sum(t) == IF t = 0 THEN 0
                ELSE Sum(t - 1) + Cardinality(DOMAIN tornadoes[t].subgraphs)
  IN  Sum(Len(tornadoes))

\* the sum of the fragment counts of the prompts submitted
FragmentTotal ==
  LET RECURSIVE Sum(_)
      Sum(n) == IF n = 0 THEN 0
                ELSE Sum(n - 1) + Len(active_prompts[PromptId(n)].fragments)
  IN  Sum(nextPrompt - 1)

\* C22: interleaved distributions lose nothing.  However the sweep_up calls
\* of concurrent send_prompt calls interleave, if no release has taken a
\* subgraph out of a tornado then: once every send_prompt has returned, the
\* number of subgraphs held over all tornadoes is the sum of the prompts'
\* fragment counts; and when a send_prompt returns, the subgraph of its i-th
\* fragment (0-based) is in the tornado at pool index i mod p, p the length
\* of the pool it distributed over.
DistributionsLoseNothing ==
  /\ []((evicted = {} /\ ~Submitting /\ \A p \in Procs : pc[p] # "panicked")
          => HeldTotal = FragmentTotal)
  /\ [][\A p \in Procs :
          (pc[p] = "df_status" /\ pc'[p] = "idle" /\ evicted' = {})
            => \A i \in 0 .. Len(local[p].prompt.fragments) - 1 :
                 SubgraphId(local[p].prompt.id[2], i + 1)
                   \in DOMAIN tornadoes'[(i % Len(tornadoes)) + 1].subgraphs
      ]_vars

\* the send_prompt of the first prompt returns after the send_prompt of the
\* second has returned: the two distributed, over a pool of one tornado,
\* three subgraphs in all, which that tornado holds
DistributionsLoseNothingWitness ==
  \E p \in Procs :
    /\ ret[p].op = "send_prompt"
    /\ ret[p].arg = PromptId(1)
    /\ PromptId(2) \in DOMAIN active_prompts
    /\ active_prompts[PromptId(2)].status = "InWhirlwind"
    /\ ~Submitting
    /\ evicted = {}
    /\ Len(tornadoes) = 1
    /\ Cardinality(DOMAIN tornadoes[1].subgraphs) = 3

\* the ids of the subgraphs held by some tornado
HeldIds == UNION {DOMAIN tornadoes[t].subgraphs : t \in DOMAIN tornadoes}

\* C23, as the code has it: at the moment send_prompt returns the id, the
\* prompt is in active_prompts with status InWhirlwind, and every subgraph
\* created for the prompt has been swept up: it is held by some tornado,
\* unless a release of another caller has taken it out since; send_prompt
\* itself has invoked no spin().
SubmitDistributed ==
  [][\A p \in Procs :
       (pc[p] = "df_status" /\ pc'[p] = "idle")
         => LET prompt == local[p].prompt IN
            /\ ret'[p] = Returned("send_prompt", prompt.id, TRUE, <<>>)
            /\ prompt.id \in DOMAIN active_prompts'
            /\ active_prompts'[prompt.id].status = "InWhirlwind"
            /\ Len(local[p].swept) = Len(prompt.fragments)
            /\ \A i \in 1 .. Len(prompt.fragments) :
                 \/ SubgraphId(prompt.id[2], i) \in HeldIds'
                 \/ SubgraphId(prompt.id[2], i) \in evicted'
            /\ local[p].spun = <<>>
            /\ local[p].evals = 0
    ]_vars

\* a send_prompt of "Test prompt" in two fragments has returned: the prompt
\* is InWhirlwind and its two subgraphs are held by two tornadoes
SubmitDistributedWitness ==
  \E p \in Procs :
    /\ ret[p].op = "send_prompt"
    /\ active_prompts[ret[p].arg].status = "InWhirlwind"
    /\ Len(active_prompts[ret[p].arg].fragments) = 2
    /\ \E t1, t2 \in DOMAIN tornadoes :
         /\ t1 # t2
         /\ SubgraphId(ret[p].arg[2], 1) \in DOMAIN tornadoes[t1].subgraphs
         /\ SubgraphId(ret[p].arg[2], 2) \in DOMAIN tornadoes[t2].subgraphs

\* C23: at the moment send_prompt returns the id, the prompt is in
\* active_prompts with status InWhirlwind and every subgraph created for
\* the prompt is already held by some tornado; send_prompt itself performs
\* no spin() scan.
SubmitAllHeld ==
  [][\A p \in Procs :
       (pc[p] = "df_status" /\ pc'[p] = "idle")
         => LET prompt == local[p].prompt IN
            /\ prompt.id \in DOMAIN active_prompts'
            /\ active_prompts'[prompt.id].status = "InWhirlwind"
            /\ \A i \in 1 .. Len(prompt.fragments) :
                 SubgraphId(prompt.id[2], i) \in HeldIds'
            /\ local[p].spun = <<>>
    ]_vars

\* C27: auto-spawn adds tornadoes to an empty pool only.  From an empty
\* pool, as long as every call made is a send_prompt (no spawn_tornado is
\* called), the pool never holds more than 3 tornadoes, and once a
\* send_prompt has been called and every send_prompt has returned it holds
\* exactly 3, however the calls interleave.
AutoSpawnOnce ==
  calls = nextPrompt - 1 =>
    /\ Len(tornadoes) <= DefaultTornadoes
    /\ (nextPrompt > 1 /\ ~Submitting) => Len(tornadoes) = DefaultTornadoes

\* C28: collect and advance never remove units.  No step of a
\* collect_results or of a process_step (with its simulate_step and spins)
\* changes the pool or any tornado's map; the number of subgraphs a tornado
\* holds decreases in the steps of a release only, and a subgraph that is
\* held stays held unless a release takes it out: so the subgraphs of a
\* collected prompt stay in the tornadoes.
CollectAdvanceKeepUnits ==
  [][/\ \A p \in Procs :
          ( /\ <<pc[p], local[p], waiting[p]>> # <<pc'[p], local'[p], waiting'[p]>>
            /\ \/ pc[p] \in {"cr_lock", "cr_assembling", "cr_complete",
                             "tick_read", "spin_lock", "spin_pairs"}
               \/ pc'[p] \in {"cr_lock", "tick_read"} )
            => tornadoes' = tornadoes
     /\ \A t \in DOMAIN tornadoes :
          /\ t \in DOMAIN tornadoes'
          /\ Cardinality(DOMAIN tornadoes'[t].subgraphs)
               < Cardinality(DOMAIN tornadoes[t].subgraphs)
               => \E p \in Procs : pc[p] = "tr_release" /\ local[p].src = t
     /\ \A id \in HeldIds : id \in HeldIds' \/ id \in evicted'
    ]_vars

\* a collect_results of a prompt returns Some while the other caller is in
\* the second pass of a process_step, and the two subgraphs of the prompt
\* are still held by the tornadoes
CollectAdvanceKeepUnitsWitness ==
  \E p, q \in Procs :
    /\ ret[p].op = "collect_results"
    /\ ret[p].some
    /\ local[q].phase = 2
    /\ local[q].spun # <<>>
    /\ {SubgraphId(ret[p].arg[2], 1), SubgraphId(ret[p].arg[2], 2)} \subseteq HeldIds

\* C30: fragment-to-unit traceability.  Once distribute_fragments has swept
\* up the subgraphs of a prompt, and as long as no release has taken a
\* subgraph out, the subgraph_id of every fragment stored in active_prompts
\* is the id of a subgraph a tornado holds, and distinct fragments of the
\* prompt name distinct subgraphs.
FragmentTraceable ==
  \A id \in DOMAIN active_prompts :
    LET fragments == active_prompts[id].fragments IN
    (active_prompts[id].status = "InWhirlwind" /\ evicted = {}) =>
      /\ \A k \in DOMAIN fragments : fragments[k].subgraph_id \in HeldIds
      /\ \A k, l \in DOMAIN fragments :
           k # l => fragments[k].subgraph_id # fragments[l].subgraph_id

----------------------------------------------------------------------------
(* Properties of one tornado (TornadoSpec) *)

\* C4: release(count) on a tornado that holds h subgraphs returns exactly
\* min(count, h) subgraphs and leaves exactly h - min(count, h) in the map;
\* the returned and the remaining subgraphs are disjoint and together are
\* exactly the h subgraphs held before the call, each as it was held; on an
\* empty tornado release returns an empty Vec (it is one step: it waits for
\* nothing).
ReleasePartition ==
  [][ret'[1].op = "release" =>
       LET before == tornadoes[1].subgraphs
           after == tornadoes'[1].subgraphs
           h == Cardinality(DOMAIN before)
           count == local'[1].count
           released == local'[1].released
           ids == {released[n].id : n \in DOMAIN released}
       IN  /\ Len(released) = IF count < h THEN count ELSE h
           /\ Cardinality(ids) = Len(released)
           /\ Cardinality(DOMAIN after) = h - Len(released)
           /\ ids \cap DOMAIN after = {}
           /\ ids \cup DOMAIN after = DOMAIN before
           /\ \A n \in DOMAIN released : released[n] = before[released[n].id]
           /\ \A x \in DOMAIN after : after[x] = before[x]
           /\ h = 0 => released = <<>> /\ after = before
    ]_vars

\* release(2) on a tornado that held 3 subgraphs has returned 2 and left 1
ReleasePartitionWitness ==
  /\ ret[1].op = "release"
  /\ local[1].held = 3
  /\ local[1].count = 2
  /\ Len(local[1].released) = 2
  /\ Cardinality(DOMAIN tornadoes[1].subgraphs) = 1

\* C5: sweep_up(subgraph) stores the subgraph under its own id: after the
\* call the map holds that id with that subgraph; sweeping up an id that is
\* already held overwrites the entry and leaves the size of the map
\* unchanged, otherwise the size grows by exactly 1; no other entry of the
\* map changes.
SweepUpStores ==
  [][ret'[1].op = "sweep_up" =>
       LET before == tornadoes[1].subgraphs
           after == tornadoes'[1].subgraphs
           sg == local'[1].released[1]
       IN  /\ sg.id \in DOMAIN after
           /\ after[sg.id] = sg
           /\ Cardinality(DOMAIN after) =
                IF sg.id \in DOMAIN before
                  THEN Cardinality(DOMAIN before)
                  ELSE Cardinality(DOMAIN before) + 1
           /\ DOMAIN after = DOMAIN before \cup {sg.id}
           /\ \A x \in DOMAIN before \ {sg.id} : after[x] = before[x]
    ]_vars

\* a subgraph was swept up whose id was already held: the map held 2
\* subgraphs when the call began and holds 2 now, the one just swept up
\* among them
SweepUpStoresWitness ==
  /\ ret[1].op = "sweep_up"
  /\ local[1].held = 2
  /\ Cardinality(DOMAIN tornadoes[1].subgraphs) = 2
  /\ local[1].arg \in DOMAIN tornadoes[1].subgraphs
  /\ tornadoes[1].subgraphs[local[1].arg] = local[1].released[1]

\* C6: spin is observation-only: it leaves the tornado's map (the keys and
\* the subgraphs held, with every subgraph's strength, nodes, parent and
\* children) unchanged, merges no connecting pair, and evaluates no pair at
\* all when fewer than 2 subgraphs are held.
SpinReadOnly ==
  [][ret'[1].op = "spin" =>
       /\ tornadoes' = tornadoes
       /\ local'[1].held < 2 => local'[1].evals = 0
    ]_vars

\* spin has run over 3 held subgraphs, two of which connect
SpinReadOnlyWitness ==
  /\ ret[1].op = "spin"
  /\ local[1].evals = 3
  /\ \E a, b \in DOMAIN tornadoes[1].subgraphs :
       /\ a # b
       /\ CanConnectWith(tornadoes[1].subgraphs[a], tornadoes[1].subgraphs[b])

----------------------------------------------------------------------------
(* Properties of subgraphs (SubgraphSpec) *)

\* C13: split(n) returns exactly n new subgraphs, each with parent equal to
\* the id of the subgraph that was split and with pairwise distinct fresh
\* ids; the children list of the subgraph that was split grows by exactly
\* those n ids, appended in order, so repeated splits accumulate, and
\* split(0) changes nothing.
SplitChildren ==
  [][result'.op = "split" =>
       LET before == units[result'.unit]
           after == units'[result'.unit]
           n == result'.num_splits
           splits == result'.splits
           ids == [j \in 1 .. Len(splits) |-> splits[j].id]
       IN  /\ Len(splits) = n
           /\ \A j \in 1 .. n :
                /\ splits[j].parent = before.id
                /\ splits[j].children = <<>>
                /\ \A u \in DOMAIN units : ids[j] # units[u].id
                /\ \A c \in DOMAIN before.children : ids[j] # before.children[c]
                /\ \A i \in 1 .. n : i # j => ids[i] # ids[j]
           /\ after.children = before.children \o ids
           /\ Len(after.children) = Len(before.children) + n
           /\ after = [before EXCEPT !.children = after.children]
           /\ \A u \in DOMAIN units : u # result'.unit => units'[u] = units[u]
           /\ Len(units') = Len(units)
           /\ n = 0 => units' = units
    ]_vars

\* split(2) of a subgraph that had one child from an earlier split: it has
\* three children now, the last two those just returned
SplitChildrenWitness ==
  /\ result.op = "split"
  /\ result.num_splits = 2
  /\ Len(units[result.unit].children) = 3
  /\ units[result.unit].children[3] = result.splits[2].id

\* C14: can_connect_with(a, b) holds exactly when the strengths differ by
\* less than 0.3 (a difference of exactly 0.3 does not connect); it is
\* symmetric, defined for every pair, and changes neither subgraph.
\* Strengths 0.5 and 0.6 connect; 0.1 and 0.9 do not.
ConnectSymmetric ==
  [][result'.op = "can_connect_with" =>
       LET a == units[result'.a]
           b == units[result'.b]
           d == a.tornado_strength - b.tornado_strength
       IN  /\ result'.value \in BOOLEAN
           /\ result'.value = (d \in {-2, -1, 0, 1, 2})
           /\ result'.value = CanConnectWith(b, a)
           /\ (a.tornado_strength = 5 /\ b.tornado_strength = 6) => result'.value
           /\ (a.tornado_strength = 1 /\ b.tornado_strength = 9) => ~result'.value
           /\ d \in {-3, 3} => ~result'.value
           /\ units' = units
    ]_vars

\* two subgraphs whose strengths differ by exactly 0.3 were asked and do not
\* connect
ConnectSymmetricWitness ==
  /\ result.op = "can_connect_with"
  /\ units[result.a].tornado_strength = 4
  /\ units[result.b].tornado_strength = 1
  /\ ~result.value

\* C19: the strength of every subgraph is in [0, 1) in every reachable
\* state: as Subgraph::new draws it, for every child split returns, and
\* after any sequence of merges.
StrengthInRange ==
  /\ \A u \in DOMAIN units : units[u].tornado_strength \in Strengths
  /\ result.op = "split" =>
       \A j \in DOMAIN result.splits : result.splits[j].tornado_strength \in Strengths

\* a subgraph of strength 0.9 was merged into another of strength 0.9
StrengthInRangeWitness ==
  /\ result.op = "merge"
  /\ result.strength = 9
  /\ result.other = 9
  /\ \E u \in DOMAIN units :
       units[u].id = result.id /\ units[u].tornado_strength = 9

----------------------------------------------------------------------------
(* Properties of the decomposer (DecomposerSpec) *)

ReintegrationOrder ==
  [][result'.op = "reintegrate_results" =>
       LET entries == result'.entries
           Unit(id) == result'.subgraphs[CHOOSE j \in DOMAIN result'.subgraphs :
                                           result'.subgraphs[j].id = id]
           meta(e) == Unit(entries[e][1]).nodes[1].metadata
           layer_index(e) ==
             (CHOOSE li \in DOMAIN model_layers :
                model_layers[li].id = meta(e).layer_id) - 1
           key(e) == layer_index(e) * 1000 + meta(e).index
       IN  \E order \in Perms(DOMAIN entries) :
             /\ \A i, j \in DOMAIN order : i < j => key(order[i]) < key(order[j])
             /\ result'.output = JoinWords([j \in DOMAIN order |-> entries[order[j]][2]])
    ]_vars

----------------------------------------------------------------------------
(* Properties of fragment_prompt (FragmentSpec) *)

\* the words of the fragments pushed so far, in fragment order
FragmentWords ==
  LET RECURSIVE Words(_)
      Words(k) == IF k = 0 THEN <<>>
                  ELSE Words(k - 1) \o SplitWhitespace(frag.fragments[k].content)
  IN  Words(Len(frag.fragments))

\* C17: for every prompt, fragment_prompt terminates; each fragment has 1 to
\* 3 whitespace-delimited words and is never empty; the fragments' words in
\* fragment order are exactly the prompt's word sequence; a prompt with no
\* words yields zero fragments.
FragmentationSound ==
  /\ [](frag.pc \in {"loop", "done"} =>
          /\ \A k \in DOMAIN frag.fragments :
               /\ frag.fragments[k].content # <<>>
               /\ Len(SplitWhitespace(frag.fragments[k].content)) \in 1 .. 3
          /\ FragmentWords = SubSeq(SplitWhitespace(frag.prompt), 1, frag.i))
  /\ [](frag.pc = "done" =>
          /\ FragmentWords = SplitWhitespace(frag.prompt)
          /\ SplitWhitespace(frag.prompt) = <<>> => frag.fragments = <<>>)
  /\ (frag.pc = "loop" ~> frag.pc = "done")

\* a prompt of four words came back as a fragment of three words and a
\* fragment of the one word left
FragmentationSoundWitness ==
  /\ frag.pc = "done"
  /\ frag.prompt = <<"a", " ", "b", " ", "b", " ", "a">>
  /\ Len(frag.fragments) = 2
  /\ frag.fragments[1].content = <<"a", " ", "b", " ", "b">>
  /\ frag.fragments[2].content = <<"a">>

\* C24: reintegration is complete.  For each strategy, every subgraph that
\* decompose_model produces is recorded in subgraph_mapping, so that
\* reintegrate_results, given one result per produced subgraph, has every
\* one of those results in its output: none is dropped.
ReintegrationComplete ==
  [][/\ result'.op = "decompose_model" =>
          \A j \in DOMAIN result'.subgraphs :
            \E layer_id \in DOMAIN subgraph_mapping' :
              subgraph_mapping'[layer_id] = result'.subgraphs[j].id
     /\ (result'.op = "reintegrate_results"
           /\ Len(result'.entries) = Len(result'.subgraphs)) =>
          LET words == SplitWhitespace(result'.output)
              entries == result'.entries
          IN  \A r \in ResultStrings :
                Cardinality({j \in DOMAIN words : words[j] = r})
                  = Cardinality({j \in DOMAIN entries : entries[j][2] = r})
    ]_vars

\* C25: merge(other) always terminates and returns Ok for every pair of
\* subgraphs, also when other is a clone of self (which shares self's graph
\* and its lock): once merge holds its read guard on other.graph, its write
\* request on self.graph can be granted; and on return self's graph holds
\* its previous nodes and a copy of each node of other.
MergeSucceeds ==
  /\ [](result.op = "merge_read" =>
          Free(GraphLock(units[result.self].id), "w"))
  /\ [][result'.op = "merge" =>
          units'[result.self].nodes = units[result.self].nodes \o result.other.nodes
      ]_vars

----------------------------------------------------------------------------
(* Properties of EnhancedProcessor::process_prompt (EnhancedSpec) *)

\* C26: lifecycle order.  The steps of process_prompt occur in the order
\* decompose, distribute, interact, release, reintegrate: every tornado's
\* subgraphs are released before the results are reintegrated, and after the
\* call has returned no tornado holds a subgraph of the call.
LifecycleOrder ==
  /\ (result.op = "process_prompt" /\ result.at = "returned") =>
       /\ \E d, s, i, r, g \in DOMAIN result.steps :
            /\ result.steps[d] = "decompose"
            /\ result.steps[s] = "distribute"
            /\ result.steps[i] = "interact"
            /\ result.steps[r] = "release"
            /\ result.steps[g] = "reintegrate"
            /\ d < s /\ s < i /\ i < r /\ r < g
       /\ \A t \in DOMAIN tornadoes, j \in DOMAIN result.subgraphs :
            result.subgraphs[j].id \notin DOMAIN tornadoes[t].subgraphs
  /\ result.op = "process_prompt" =>
       \A g \in DOMAIN result.steps :
         result.steps[g] = "reintegrate" =>
           \E r \in 1 .. g - 1 : result.steps[r] = "release"

----------------------------------------------------------------------------
(* Properties of a spin among concurrent callers (ScanSpec) *)

\* C29: the scan of a spin works on a consistent snapshot.  From the step
\* in which spin has collected the ids of a tornado's map to the step in
\* which its pair loops run, no sweep_up or release changes that map: the
\* ids are those of the map, in whatever order keys() lists them no lookup
\* of the pair loops fails, the loops evaluate h*(h-1)/2 pairs for the h
\* subgraphs held, and spin does not panic.
SpinSnapshot ==
  [][\A p \in Procs :
       pc[p] = "spin_pairs" =>
         LET t == local[p].k
             h == Cardinality(local[p].ids)
         IN  /\ t \in DOMAIN tornadoes
             /\ DOMAIN tornadoes[t].subgraphs = local[p].ids
             /\ \A ids \in Perms(local[p].ids) :
                  LET out == SpinPairs(tornadoes[t].subgraphs, ids, 0, 1) IN
                  /\ ~out.panic
                  /\ out.evals = (h * (h - 1)) \div 2
             /\ pc'[p] # "panicked"
             /\ pc'[p] = "spin_pairs" =>
                  tornadoes'[t].subgraphs = tornadoes[t].subgraphs
    ]_vars

\* a spin has collected the ids of three subgraphs and holds its guard
\* while another caller waits to release from the same tornado
SpinSnapshotWitness ==
  \E p, q \in Procs :
    /\ pc[p] = "spin_pairs"
    /\ Cardinality(local[p].ids) = 3
    /\ pc[q] = "tr_release"
    /\ waiting[q]
    /\ local[q].src = local[p].k

====
